---- MODULE Spec2Model ----
(***************************************************************************)
(* A model of mightymap: the generic Map facade (mightymap.go), the        *)
(* in-memory backend (mightyMapDirectStorage), the Swiss backend and the   *)
(* byte-oriented backends (Badger, SQLite, Redis) behind the msgpack       *)
(* adapter.                                                                *)
(*                                                                         *)
(* Spec       one caller: every facade call runs to completion as one      *)
(*            step, on any of the five backends.                           *)
(* ConcSpec, NextSpec, RangeSpec                                           *)
(*            several goroutines on the lock-protected in-memory           *)
(*            backends; every acquisition of the sync.RWMutex and every    *)
(*            critical section is a step of its own.                       *)
(***************************************************************************)
EXTENDS Integers, Sequences, FiniteSets, TLC

\* ------------------------------------------------------------------ bounds
\* Keys are 0..MaxKey; 0 is the zero value of the key type K (*new(K)).
MaxKey == 1
\* Values are 1..MaxVal; 0 is the zero value of the value type V.
MaxVal == 2
\* Longest key list passed to one Delete(keys...) call.
MaxDeleteKeys == 2
\* The clock of the SQLite count cache runs over 1..MaxTime.
MaxTime == 6
\* Cap on the Badger len counter (it grows without bound on overwrites).
MaxLenCounter == 3
\* Goroutines sharing one map are 1..MaxThreads.
MaxThreads == 2
\* Facade calls made by each goroutine.
MaxOps == 2
\* Largest COUNT passed to SCAN.
MaxScanCount == 2

Keys == 0..MaxKey
Values == 1..MaxVal
ZeroK == 0
ZeroV == 0
\* The absence of a value in the bookkeeping of stored values.
NoVal == ZeroV - 1
Backends == {"direct", "swiss", "badger", "sqlite", "redis"}
\* reflect.TypeOf(value).String() of the one value type of the model.
TypeName == "int"
\* No migration tool has been started.
NoRun == [phase |-> "none"]
\* A nil []byte.
NilBytes == <<>>
\* Bytes that are not valid MessagePack ([]byte{0xff}).
BadBytes == [raw |-> 255]
\* A value msgpack.Marshal rejects (a channel, a func).
UnencodableV == MaxVal + 1
\* The storages whose entries outlive the map object (a file, a server).
Persistent == {"badger", "sqlite", "redis"}

VARIABLES
    backend,        \* which storage the facade was constructed with
    allowOverwrite, \* Map.allowOverwrite
    st,             \* the backend: data, Badger's len/initLenCall, SQLite's countCache/lastCount
    now,            \* wall clock read by the SQLite count cache
    ret,            \* the last facade call of the single caller and what it returned
    firstStored,    \* per key: value of the first Store call since the key was last removed
    lastStored,     \* per key: value of the latest Store call since the key was last removed
    pc,             \* per goroutine: where it stands in its current call
    call,           \* per goroutine: the call in progress (arguments and locals)
    res,            \* per goroutine: its last completed facade call and what it returned
    mutex,          \* the sync.RWMutex of the in-memory storage, the mutex of the SQLite storage
    budget,         \* per goroutine: facade calls it may still make
    keyOf,          \* per goroutine: the key its Store, Load and Delete calls use
    own,            \* per goroutine: a map that received only its Store and Delete calls
    returned,       \* per key: the Next calls that returned its entry with found=true
    typeRegistry,   \* the adapter's process-wide map from type names to types
    valueType,      \* the type argument V of the map
    server,         \* the key space of a Redis server that several maps use
    prefix,         \* per map on that server: its opts.prefix
    mig,            \* a run of a migration tool: its stores, config and stats
    cachingMutex    \* the sync.RWMutex that guards the SQLite count cache

seqVars == <<backend, allowOverwrite, st, now, ret, firstStored, lastStored>>
concVars == <<pc, call, res, mutex, budget, keyOf, own, returned>>
toolVars == <<typeRegistry, valueType, server, prefix, mig, cachingMutex>>
vars == <<seqVars, concVars, toolVars>>

\* ---------------------------------------------------------------- helpers
EmptyMap == [k \in {} |-> 0]
Put(m, k, v) == [x \in (DOMAIN m) \cup {k} |-> IF x = k THEN v ELSE m[x]]
Remove(m, k) == [x \in (DOMAIN m) \ {k} |-> m[x]]
Min(S) == CHOOSE x \in S : \A y \in S : x <= y
KeyLists == UNION {[1..n -> Keys] : n \in 0..MaxDeleteKeys}

\* The state of a freshly constructed backend. closed: the database or
\* client handle of a persistent backend has been closed.
NewStorage ==
    [data |-> EmptyMap, len |-> 0, initLenCall |-> FALSE,
     countCache |-> -1, lastCount |-> 0, closed |-> FALSE]

\* What a lookup returns.
Found(v) == [value |-> v, ok |-> TRUE]
NotFound(zero) == [value |-> zero, ok |-> FALSE]
\* What Next returns besides the new state.
NextResult(s, k, v, ok) == [st |-> s, key |-> k, value |-> v, ok |-> ok]
\* Next of the in-memory storages takes a key equal to the zero value of K
\* for "nothing found".
NextFound(key) == key # ZeroK
\* The entry a scan of the table yields first: any present key.
Picks(s) == IF DOMAIN s.data = {} THEN {ZeroK} ELSE DOMAIN s.data

\* ------------------------------------------------- in-memory backend (direct)
DirectLoad(s, k) ==
    IF k \in DOMAIN s.data THEN Found(s.data[k]) ELSE NotFound(ZeroV)

\* Mutant of DirectStore: the write drops every other entry.
DirectStoreAlone(s, k, v) == [s EXCEPT !.data = Put(EmptyMap, k, v)]

DirectStore(s, k, v) == [s EXCEPT !.data = Put(@, k, v)]

RECURSIVE DirectDelete(_, _)
DirectDelete(s, keys) ==
    IF keys = <<>> THEN s
    ELSE DirectDelete([s EXCEPT !.data = Remove(@, Head(keys))], Tail(keys))

DirectLen(s) == Cardinality(DOMAIN s.data)

DirectClear(s) == [s EXCEPT !.data = EmptyMap]

\* Next: Range stops at the first entry (pick), then the key is compared with
\* the zero value of K to decide whether anything was found.
DirectNextPick(s, pick) ==
    IF s.data = EmptyMap THEN [key |-> ZeroK, value |-> ZeroV]
    ELSE [key |-> pick, value |-> s.data[pick]]

DirectNext(s, pick) ==
    LET p == DirectNextPick(s, pick)
    IN IF NextFound(p.key)
       THEN NextResult(DirectDelete(s, <<p.key>>), p.key, p.value, TRUE)
       ELSE NextResult(s, p.key, p.value, FALSE)

\* ------------------------------------------------------------ Swiss backend
SwissLoad(s, k) ==
    IF k \in DOMAIN s.data THEN Found(s.data[k]) ELSE NotFound(NilBytes)

SwissStore(s, k, bytes) == [s EXCEPT !.data = Put(@, k, bytes)]

RECURSIVE SwissDelete(_, _)
SwissDelete(s, keys) ==
    IF keys = <<>> THEN s
    ELSE SwissDelete([s EXCEPT !.data = Remove(@, Head(keys))], Tail(keys))

SwissLen(s) == Cardinality(DOMAIN s.data)

SwissClear(s) == [s EXCEPT !.data = EmptyMap]

SwissNextPick(s, pick) ==
    IF s.data = EmptyMap THEN [key |-> ZeroK, value |-> NilBytes]
    ELSE [key |-> pick, value |-> s.data[pick]]

SwissNext(s, pick) ==
    LET p == SwissNextPick(s, pick)
    IN IF NextFound(p.key)
       THEN NextResult(SwissDelete(s, <<p.key>>), p.key, p.value, TRUE)
       ELSE NextResult(s, p.key, p.value, FALSE)

\* ----------------------------------------------------------- Badger backend
BadgerLoad(s, k) ==
    IF k \in DOMAIN s.data THEN Found(s.data[k]) ELSE NotFound(NilBytes)

\* txn.Set, then len.Add(1) whether or not the key was already there.
BadgerStore(s, k, bytes) ==
    [s EXCEPT !.data = Put(@, k, bytes), !.len = @ + 1]

RECURSIVE BadgerDelete(_, _)
\* Mutant of BadgerDelete: a key is deleted and counted without the Load
\* that skips the keys that are not stored.
RECURSIVE BadgerDeleteBlind(_, _)
BadgerDeleteBlind(s, keys) ==
    IF keys = <<>> THEN s
    ELSE BadgerDeleteBlind([s EXCEPT !.data = Remove(@, Head(keys)),
                                     !.len = @ - 1], Tail(keys))

BadgerDelete(s, keys) ==
    IF keys = <<>> THEN s
    ELSE IF ~BadgerLoad(s, Head(keys)).ok
         THEN BadgerDelete(s, Tail(keys))
         ELSE BadgerDelete([s EXCEPT !.data = Remove(@, Head(keys)),
                                     !.len = @ - 1], Tail(keys))

\* The first Len call counts the entries with an iterator and stores the count.
BadgerLen(s) ==
    LET s1 == IF ~s.initLenCall
              THEN [s EXCEPT !.initLenCall = TRUE,
                             !.len = Cardinality(DOMAIN s.data)]
              ELSE s
    IN [st |-> s1, n |-> s1.len]

\* Mutant of BadgerClear: the entries are dropped, the counter is not reset.
BadgerClearKeepsLen(s) == [s EXCEPT !.data = EmptyMap]

\* db.DropAll, then len.Store(0).
BadgerClear(s) == [s EXCEPT !.data = EmptyMap, !.len = 0]

\* The iterator is rewound to the smallest key.
BadgerNext(s) ==
    IF DOMAIN s.data = {}
    THEN NextResult(s, ZeroK, NilBytes, FALSE)
    ELSE LET key == Min(DOMAIN s.data)
         IN NextResult(BadgerDelete(s, <<key>>), key, s.data[key], TRUE)

\* ----------------------------------------------------------- SQLite backend
\* 5 * time.Second, in clock ticks of one second.
defaultCacheCountDuration == 5

\* Mutant of invalidateCountCache: the cache is left as it is.
invalidateCountCacheKeeps(s) == s

\* countCache = -1 and lastCount = time.Time{}.
invalidateCountCache(s) == [s EXCEPT !.countCache = -1, !.lastCount = 0]

SqliteLoad(s, k) ==
    IF k \in DOMAIN s.data THEN Found(s.data[k]) ELSE NotFound(NilBytes)

SqliteStore(s, k, bytes) ==
    invalidateCountCache([s EXCEPT !.data = Put(@, k, bytes)])

RECURSIVE SqliteDeleteRows(_, _)
SqliteDeleteRows(s, keys) ==
    IF keys = <<>> THEN s
    ELSE SqliteDeleteRows([s EXCEPT !.data = Remove(@, Head(keys))], Tail(keys))

\* The transaction of Delete. failed: the keys whose DELETE statement
\* returns an error, which is printed and not kept; commitOk: tx.Commit
\* succeeds (its error is kept, and the deferred function rolls back).
SqliteDeleteTx(s, keys, failed, commitOk) ==
    LET Executed(k) == k \notin failed
    IN IF Len(keys) = 0 THEN s
       ELSE invalidateCountCache(
                IF commitOk THEN SqliteDeleteRows(s, SelectSeq(keys, Executed))
                ELSE s)

SqliteDelete(s, keys) == SqliteDeleteTx(s, keys, {}, TRUE)

\* The cached count is returned while it is younger than the cache duration.
SqliteLen(s, t) ==
    IF s.lastCount # 0 /\ t - s.lastCount < defaultCacheCountDuration
    THEN [st |-> s, n |-> s.countCache]
    ELSE LET count == Cardinality(DOMAIN s.data)
         IN [st |-> [s EXCEPT !.countCache = count, !.lastCount = t],
             n |-> count]

SqliteClear(s) == invalidateCountCache([s EXCEPT !.data = EmptyMap])

\* Mutant of SqliteNext: the selected row is returned and not deleted.
SqliteNextKeepsRow(s, pick) ==
    IF DOMAIN s.data = {}
    THEN NextResult(s, ZeroK, NilBytes, FALSE)
    ELSE NextResult(invalidateCountCache(s), pick, s.data[pick], TRUE)

\* SELECT ... LIMIT 1 (pick), then DELETE of that row.
SqliteNext(s, pick) ==
    IF DOMAIN s.data = {}
    THEN NextResult(s, ZeroK, NilBytes, FALSE)
    ELSE NextResult(invalidateCountCache([s EXCEPT !.data = Remove(@, pick)]),
                    pick, s.data[pick], TRUE)

\* ------------------------------------------------------------ Redis backend
\* The keys of this map's prefix that a full SCAN returns.
RedisScan(s) == DOMAIN s.data

\* SCAN cursor COUNT max on a server that iterates its keys in the given
\* order: a page of keys and the cursor of the next page, 0 after the last.
RedisScanPage(order, cursor, max) ==
    LET last == IF cursor + max < Len(order) THEN cursor + max ELSE Len(order)
    IN [kk |-> SubSeq(order, cursor + 1, last),
        cursor |-> IF last = Len(order) THEN 0 ELSE last]

\* Mutant of RedisScanFrom: the first page is returned, the cursor ignored.
RedisScanOnce(order, cursor, max) == RedisScanPage(order, cursor, max).kk

\* c.scan: pages are appended until the cursor is 0 again.
RECURSIVE RedisScanFrom(_, _, _)
RedisScanFrom(order, cursor, max) ==
    LET page == RedisScanPage(order, cursor, max)
    IN IF page.cursor = 0 THEN page.kk
       ELSE page.kk \o RedisScanFrom(order, page.cursor, max)

\* Keys: the scanned key names with the prefix cut off.
RedisKeys(s, order, max) == RedisScanFrom(order, 0, max)

RedisLoad(s, k) ==
    IF k \in DOMAIN s.data THEN Found(s.data[k]) ELSE NotFound(NilBytes)

RedisStore(s, k, bytes) == [s EXCEPT !.data = Put(@, k, bytes)]

RECURSIVE RedisDelete(_, _)
RedisDelete(s, keys) ==
    IF keys = <<>> THEN s
    ELSE RedisDelete([s EXCEPT !.data = Remove(@, Head(keys))], Tail(keys))

RedisLen(s) == Cardinality(RedisScan(s))

RECURSIVE SetToSeq(_)
SetToSeq(S) ==
    IF S = {} THEN <<>>
    ELSE LET x == CHOOSE y \in S : TRUE IN <<x>> \o SetToSeq(S \ {x})

RedisClear(s) ==
    LET kkeys == SetToSeq(RedisScan(s))
    IN IF Len(kkeys) > 0 THEN RedisDelete(s, kkeys) ELSE s

RedisNext(s, pick) ==
    IF RedisScan(s) = {}
    THEN NextResult(s, ZeroK, NilBytes, FALSE)
    ELSE NextResult(RedisDelete(s, <<pick>>), pick, s.data[pick], TRUE)

\* ------------------------------------------- byteStorage, by implementation
BytesLoad(b, s, k) ==
    CASE b = "swiss" -> SwissLoad(s, k)
      [] b = "badger" -> BadgerLoad(s, k)
      [] b = "sqlite" -> SqliteLoad(s, k)
      [] b = "redis" -> RedisLoad(s, k)

BytesStore(b, s, k, bytes) ==
    CASE b = "swiss" -> SwissStore(s, k, bytes)
      [] b = "badger" -> BadgerStore(s, k, bytes)
      [] b = "sqlite" -> SqliteStore(s, k, bytes)
      [] b = "redis" -> RedisStore(s, k, bytes)

BytesDelete(b, s, keys) ==
    CASE b = "swiss" -> SwissDelete(s, keys)
      [] b = "badger" -> BadgerDelete(s, keys)
      [] b = "sqlite" -> SqliteDelete(s, keys)
      [] b = "redis" -> RedisDelete(s, keys)

BytesLen(b, s, t) ==
    CASE b = "swiss" -> [st |-> s, n |-> SwissLen(s)]
      [] b = "badger" -> BadgerLen(s)
      [] b = "sqlite" -> SqliteLen(s, t)
      [] b = "redis" -> [st |-> s, n |-> RedisLen(s)]

BytesClear(b, s) ==
    CASE b = "swiss" -> SwissClear(s)
      [] b = "badger" -> BadgerClear(s)
      [] b = "sqlite" -> SqliteClear(s)
      [] b = "redis" -> RedisClear(s)

BytesNext(b, s, pick) ==
    CASE b = "swiss" -> SwissNext(s, pick)
      [] b = "badger" -> BadgerNext(s)
      [] b = "sqlite" -> SqliteNext(s, pick)
      [] b = "redis" -> RedisNext(s, pick)

\* ----------------------------------------------------------- msgpack adapter
\* The envelope: the value under "data" and the name of its type under "type".
\* Mutant of msgpackEncodeValue: every value is given an envelope.
msgpackEncodeValueAny(v) ==
    [bytes |-> [data |-> v, type |-> TypeName], err |-> FALSE]

msgpackEncodeValue(v) ==
    IF v = UnencodableV THEN [bytes |-> NilBytes, err |-> TRUE]
    ELSE [bytes |-> [data |-> v, type |-> TypeName], err |-> FALSE]

\* Mutant of msgpackDecodeValue: every envelope decodes to the zero value.
msgpackDecodeValueZero(bytes) ==
    IF bytes = BadBytes THEN [value |-> ZeroV, err |-> TRUE]
    ELSE [value |-> ZeroV, err |-> FALSE]

msgpackDecodeValue(bytes) ==
    IF bytes = NilBytes THEN [value |-> ZeroV, err |-> FALSE]
    ELSE IF bytes = BadBytes THEN [value |-> ZeroV, err |-> TRUE]
    ELSE [value |-> bytes.data, err |-> FALSE]

AdapterLoad(b, s, k) ==
    LET r == BytesLoad(b, s, k)
    IN IF ~r.ok THEN NotFound(ZeroV)
       ELSE LET d == msgpackDecodeValue(r.value)
            IN IF d.err THEN NotFound(ZeroV) ELSE Found(d.value)

AdapterStore(b, s, k, v) ==
    LET e == msgpackEncodeValue(v)
    IN IF e.err THEN s ELSE BytesStore(b, s, k, e.bytes)

\* Mutant of AdapterNext: an entry that does not decode is returned as
\* found, with the zero value.
AdapterNextFound(b, s, pick) ==
    LET r == BytesNext(b, s, pick)
    IN IF ~r.ok THEN NextResult(r.st, r.key, ZeroV, FALSE)
       ELSE LET d == msgpackDecodeValue(r.value)
            IN NextResult(r.st, r.key, d.value, TRUE)

AdapterNext(b, s, pick) ==
    LET r == BytesNext(b, s, pick)
    IN IF ~r.ok THEN NextResult(r.st, r.key, ZeroV, FALSE)
       ELSE LET d == msgpackDecodeValue(r.value)
            IN IF d.err THEN NextResult(r.st, r.key, ZeroV, FALSE)
               ELSE NextResult(r.st, r.key, d.value, TRUE)

\* Mutant of RangeOffered: the iteration runs over the entries twice.
RangeOfferedTwice(s, order) ==
    [i \in 1..Len(order) |-> [key |-> order[i], value |-> s.data[order[i]]]]
        \o [i \in 1..Len(order) |->
               [key |-> order[i], value |-> s.data[order[i]]]]

\* The entries a storage's Range offers to its visitor, in the order of
\* iteration.
RangeOffered(s, order) ==
    [i \in 1..Len(order) |-> [key |-> order[i], value |-> s.data[order[i]]]]

\* The orders in which a storage can iterate: Badger's iterator runs in key
\* order, the others in no specified order.
RECURSIVE Sorted(_)
Sorted(S) == IF S = {} THEN <<>> ELSE <<Min(S)>> \o Sorted(S \ {Min(S)})

Orders(b, s) ==
    LET present == DOMAIN s.data
        n == Cardinality(present)
    IN IF b = "badger" THEN {Sorted(present)}
       ELSE {o \in [1..n -> present] : \A i, j \in 1..n : o[i] = o[j] => i = j}

\* The calls a typed storage's Range makes to a visitor that returns false
\* at its first call (stop) or true always.
DirectRange(s, order, stop) ==
    LET offered == RangeOffered(s, order)
    IN IF stop /\ offered # <<>> THEN <<Head(offered)>> ELSE offered

\* The calls the adapter's Range makes to the visitor: its own visitor
\* returns true without calling on for an entry that does not decode.
RECURSIVE AdapterVisit(_, _)
\* Mutant of AdapterVisit: the visitor's false is not passed on to the byte
\* storage, which goes on iterating.
RECURSIVE AdapterVisitOn(_, _)
AdapterVisitOn(offered, stop) ==
    IF offered = <<>> THEN <<>>
    ELSE LET e == Head(offered)
             d == msgpackDecodeValue(e.value)
         IN IF d.err THEN AdapterVisitOn(Tail(offered), stop)
            ELSE <<[key |-> e.key, value |-> d.value]>>
                     \o AdapterVisitOn(Tail(offered), stop)

\* Mutant of AdapterVisit: an entry that does not decode ends the iteration.
AdapterVisitHalts(offered, stop) ==
    IF offered = <<>> THEN <<>>
    ELSE LET e == Head(offered)
             d == msgpackDecodeValue(e.value)
         IN IF d.err THEN <<>>
            ELSE IF stop THEN <<[key |-> e.key, value |-> d.value]>>
            ELSE <<[key |-> e.key, value |-> d.value]>>
                     \o AdapterVisit(Tail(offered), stop)

AdapterVisit(offered, stop) ==
    IF offered = <<>> THEN <<>>
    ELSE LET e == Head(offered)
             d == msgpackDecodeValue(e.value)
         IN IF d.err THEN AdapterVisit(Tail(offered), stop)
            ELSE IF stop THEN <<[key |-> e.key, value |-> d.value]>>
            ELSE <<[key |-> e.key, value |-> d.value]>>
                     \o AdapterVisit(Tail(offered), stop)

AdapterRange(s, order, stop) == AdapterVisit(RangeOffered(s, order), stop)

\* ------------------------------------- IMightyMapStorage, by implementation
StorageRange(b, s, order, stop) ==
    IF b = "direct" THEN DirectRange(s, order, stop)
    ELSE AdapterRange(s, order, stop)

StorageLoad(b, s, k) ==
    IF b = "direct" THEN DirectLoad(s, k) ELSE AdapterLoad(b, s, k)

StorageStore(b, s, k, v) ==
    IF b = "direct" THEN DirectStore(s, k, v) ELSE AdapterStore(b, s, k, v)

StorageDelete(b, s, keys) ==
    IF b = "direct" THEN DirectDelete(s, keys) ELSE BytesDelete(b, s, keys)

StorageLen(b, s, t) ==
    IF b = "direct" THEN [st |-> s, n |-> DirectLen(s)] ELSE BytesLen(b, s, t)

StorageClear(b, s) ==
    IF b = "direct" THEN DirectClear(s) ELSE BytesClear(b, s)

StorageNext(b, s, pick) ==
    IF b = "direct" THEN DirectNext(s, pick) ELSE AdapterNext(b, s, pick)

\* ------------------------------------------------------------- Map (facade)
MapLoad(b, s, k) == StorageLoad(b, s, k)

MapHas(b, s, k) == StorageLoad(b, s, k).ok

\* Mutant of StoreGate: the policy flag is ignored.
StoreGateAlways(ok, allow) == TRUE

\* The overwrite gate of Map.Store: write when the key is absent or
\* overwriting is allowed.
StoreGate(ok, allow) == ~ok \/ allow

MapStore(b, allow, s, k, v) ==
    IF StoreGate(StorageLoad(b, s, k).ok, allow)
    THEN StorageStore(b, s, k, v)
    ELSE s

MapDelete(b, s, keys) == StorageDelete(b, s, keys)

\* Mutant of MapPop: the value is returned, the key is not deleted.
MapPopKeepsKey(b, s, k) ==
    LET r == StorageLoad(b, s, k)
    IN [st |-> s, value |-> r.value, ok |-> r.ok]

\* Pop: Load, and Delete only when the key was found.
MapPop(b, s, k) ==
    LET r == StorageLoad(b, s, k)
    IN IF ~r.ok THEN [st |-> s, value |-> r.value, ok |-> FALSE]
       ELSE [st |-> StorageDelete(b, s, <<k>>), value |-> r.value, ok |-> TRUE]

MapNext(b, s, pick) == StorageNext(b, s, pick)

MapLen(b, s, t) == StorageLen(b, s, t)

MapClear(b, s) == StorageClear(b, s)

MapRange(b, s, order, stop) == StorageRange(b, s, order, stop)

\* Mutant of StorageClose: every Close closes a handle.
StorageCloseAll(b, s) == [s EXCEPT !.closed = TRUE]

\* Close: nothing to do for the in-memory storages; db.Close() or
\* redisClient.Close() for the persistent ones.
StorageClose(b, s) ==
    IF b \in Persistent THEN [s EXCEPT !.closed = TRUE] ELSE s

MapClose(b, s) == StorageClose(b, s)

\* Keys of a map on the Redis storage; the adapter passes the call on.
MapKeys(s, order, max) == RedisKeys(s, order, max)

\* A storage whose handle is closed fails every call: the database or the
\* client returns an error, which the storage prints or panics on.
Usable(b, s) == ~s.closed

\* A persistent storage constructed again on the location of s.
StorageReopen(s) == [NewStorage EXCEPT !.data = s.data]

\* ----------------------------------------------------------- sync.RWMutex
Threads == 1..MaxThreads
NoThread == MaxThreads + 1

\* readers: read locks held, per goroutine; writer: the goroutine that called
\* Lock and either waits for the readers to leave or holds the lock.
NewMutex == [readers |-> [t \in Threads |-> 0], writer |-> NoThread]

\* RLock blocks while a writer holds the lock or waits for it.
CanRLock(m, t) == m.writer = NoThread
RLock(m, t) == [m EXCEPT !.readers[t] = @ + 1]
RUnlock(m, t) == [m EXCEPT !.readers[t] = @ - 1]

\* Lock, first half: one writer at a time announces itself; from then on
\* new readers block.
CanLockPending(m, t) == m.writer = NoThread
LockPending(m, t) == [m EXCEPT !.writer = t]

\* Mutant of CanLock: the read locks of the caller itself do not count.
CanLockReentrant(m, t) ==
    /\ m.writer = t
    /\ \A u \in Threads \ {t} : m.readers[u] = 0

\* Lock, second half: the announced writer proceeds when no read lock is
\* held, its own included.
CanLock(m, t) ==
    /\ m.writer = t
    /\ \A u \in Threads : m.readers[u] = 0

Unlock(m, t) == [m EXCEPT !.writer = NoThread]

\* ------------------------------------------------------------- goroutines
\* What a visitor passed to Range may call on the map.
Callbacks == {"Load", "Store", "Delete"}

\* No call in progress. key, val: the arguments (for Next: the entry its
\* Range picked); cb: what the visitor of a Range calls; todo: the entries
\* Range has still to visit; inRange: the call runs inside a visitor; keys:
\* the keys a Delete has still to delete; cnt: the entries the scan of a Len
\* has counted.
NoCall ==
    [name |-> "none", key |-> ZeroK, val |-> ZeroV, cb |-> "none",
     todo |-> {}, inRange |-> FALSE, keys |-> <<>>, cnt |-> 0]

\* No call completed yet. removed: the Delete of a Next removed the entry
\* that Next returns; expect: what Load returns on the goroutine's own map;
\* quiet: no other goroutine was inside a call when Len counted; expectN:
\* the number of goroutines whose own map holds their key; listed: the keys
\* passed to Delete that were stored when it began; gone: those of them that
\* are not stored when it returns.
NoRes ==
    [op |-> "none", key |-> ZeroK, value |-> ZeroV, ok |-> FALSE, n |-> 0,
     removed |-> FALSE, expect |-> NotFound(ZeroV), quiet |-> FALSE,
     expectN |-> 0, listed |-> {}, gone |-> {}, cached |-> FALSE]

Result(op, k, v, ok) ==
    [NoRes EXCEPT !.op = op, !.key = k, !.value = v, !.ok = ok]

\* No value of type V is encoded in the runs of one map of int values, no
\* second map uses the server and no migration runs.
ToolsInit ==
    /\ typeRegistry = EmptyMap
    /\ valueType = TypeName
    /\ server = EmptyMap
    /\ prefix = <<>>
    /\ mig = NoRun
    /\ cachingMutex = NewMutex

ThreadsInit ==
    /\ pc = [t \in Threads |-> "idle"]
    /\ call = [t \in Threads |-> NoCall]
    /\ res = [t \in Threads |-> NoRes]
    /\ mutex = NewMutex
    /\ own = [t \in Threads |-> NewStorage]
    /\ returned = [k \in Keys |-> 0]

\* ------------------------------------------------ one caller, any backend
\* No call made yet. keys: the arguments of Delete, the result of Keys; hit: one of them was
\* stored when Delete was called; repeat: the call before this Delete was a
\* Delete of the same keys that hit; visited: the calls Range made to its
\* visitor; stop: that visitor returns false at its first call; closed:
\* Close has returned and the storage was not constructed again since.
NoRet ==
    [op |-> "New", key |-> ZeroK, value |-> ZeroV, ok |-> FALSE, n |-> 0,
     afterClear |-> FALSE, keys |-> <<>>, hit |-> FALSE, repeat |-> FALSE,
     visited |-> <<>>, stop |-> FALSE, closed |-> FALSE]

\* afterClear: the call before this one was Clear.
Ret(op, k, v, ok, n) ==
    [NoRet EXCEPT !.op = op, !.key = k, !.value = v, !.ok = ok, !.n = n,
                  !.afterClear = (ret.op = "Clear"),
                  !.closed = ret.closed]

\* A persistent storage opened on a location that holds entries another
\* writer left under the keys of bad, in bytes that do not decode.
RECURSIVE Reopened(_)
Reopened(bad) ==
    IF bad = {} THEN NewStorage
    ELSE LET k == Min(bad)
         IN [Reopened(bad \ {k}) EXCEPT !.data = Put(@, k, BadBytes)]

\* The bookkeeping of Store calls forgets the keys that a call removed.
Forget(f, s1) == [k \in Keys |-> IF k \in DOMAIN s1.data THEN f[k] ELSE NoVal]

\* A call on a storage whose handle is open returns r.
Returns(r) ==
    /\ Usable(backend, st)
    /\ ret' = r
    /\ UNCHANGED <<backend, allowOverwrite>>
    /\ UNCHANGED <<concVars, toolVars>>

\* Map.Keys on the Redis storage; n: the COUNT of its SCAN calls.
SeqKeys ==
    /\ backend = "redis"
    /\ \E order \in Orders(backend, st), max \in 1..MaxScanCount :
          Returns([Ret("Keys", ZeroK, ZeroV, TRUE, max) EXCEPT
                     !.keys = MapKeys(st, order, max)])
    /\ UNCHANGED <<st, now, firstStored, lastStored>>

\* Map.Close.
SeqClose ==
    /\ st' = MapClose(backend, st)
    /\ ret' = [Ret("Close", ZeroK, ZeroV, TRUE, 0) EXCEPT !.closed = TRUE]
    /\ UNCHANGED <<backend, allowOverwrite, now, firstStored, lastStored>>
    /\ UNCHANGED <<concVars, toolVars>>

\* Store, Load, Delete, Range or Next on a storage whose handle is closed:
\* the call fails and nothing is read or written.
SeqUseClosed ==
    /\ ~Usable(backend, st)
    /\ \E k \in Keys : ret' = Ret("Failed", k, ZeroV, FALSE, 0)
    /\ UNCHANGED <<backend, allowOverwrite, st, now, firstStored, lastStored>>
    /\ UNCHANGED <<concVars, toolVars>>

\* The persistent storage is constructed again on the same location.
SeqReopen ==
    /\ backend \in Persistent
    /\ st.closed
    /\ st' = StorageReopen(st)
    /\ ret' = [Ret("Reopen", ZeroK, ZeroV, TRUE, 0) EXCEPT !.closed = FALSE]
    /\ UNCHANGED <<backend, allowOverwrite, now, firstStored, lastStored>>
    /\ UNCHANGED <<concVars, toolVars>>

SeqInit ==
    /\ backend \in Backends
    /\ allowOverwrite \in BOOLEAN
    /\ st \in {Reopened(bad) :
                  bad \in IF backend \in Persistent THEN SUBSET Keys ELSE {{}}}
    /\ now = 1
    /\ ret = NoRet
    /\ firstStored = [k \in Keys |-> NoVal]
    /\ lastStored = [k \in Keys |-> NoVal]
    /\ ThreadsInit
    /\ ToolsInit
    /\ budget = [t \in Threads |-> 0]
    /\ keyOf = [t \in Threads |-> ZeroK]

SeqStore ==
    \E k \in Keys, v \in Values :
        /\ st.len < MaxLenCounter
        /\ st' = MapStore(backend, allowOverwrite, st, k, v)
        /\ firstStored' = [firstStored EXCEPT
                             ![k] = IF @ = NoVal THEN v ELSE @]
        /\ lastStored' = [lastStored EXCEPT ![k] = v]
        /\ Returns(Ret("Store", k, v,
                       StoreGate(MapHas(backend, st, k), allowOverwrite), 0))
        /\ now' = now

\* Store of a value the adapter cannot encode.
SeqStoreUnencodable ==
    \E k \in Keys :
        /\ backend # "direct"
        /\ st' = MapStore(backend, allowOverwrite, st, k, UnencodableV)
        /\ Returns(Ret("Store", k, UnencodableV,
                       StoreGate(MapHas(backend, st, k), allowOverwrite), 0))
        /\ UNCHANGED <<now, firstStored, lastStored>>

SeqHas ==
    \E k \in Keys :
        /\ Returns(Ret("Has", k, ZeroV, MapHas(backend, st, k), 0))
        /\ UNCHANGED <<st, now, firstStored, lastStored>>

\* Range with a visitor that records its calls and returns false at the
\* first of them (stop) or true always.
SeqRange ==
    \E order \in Orders(backend, st), stop \in BOOLEAN :
        /\ Returns([Ret("Range", ZeroK, ZeroV, TRUE, 0) EXCEPT
                       !.visited = MapRange(backend, st, order, stop),
                       !.stop = stop])
        /\ UNCHANGED <<st, now, firstStored, lastStored>>

\* Mutant of SeqLoad: the lookup also invalidates the cached count.
SeqLoadInvalidates ==
    \E k \in Keys :
        LET r == MapLoad(backend, st, k)
        IN /\ Returns(Ret("Load", k, r.value, r.ok, 0))
           /\ st' = invalidateCountCache(st)
           /\ UNCHANGED <<now, firstStored, lastStored>>

SeqLoad ==
    \E k \in Keys :
        LET r == MapLoad(backend, st, k)
        IN /\ Returns(Ret("Load", k, r.value, r.ok, 0))
           /\ UNCHANGED <<st, now, firstStored, lastStored>>

SeqDelete ==
    \E keys \in KeyLists :
        /\ st' = MapDelete(backend, st, keys)
        /\ firstStored' = Forget(firstStored, st')
        /\ lastStored' = Forget(lastStored, st')
        /\ Returns([Ret("Delete", ZeroK, ZeroV, TRUE, Len(keys)) EXCEPT
                       !.keys = keys,
                       !.hit = (\E i \in DOMAIN keys :
                                    keys[i] \in DOMAIN st.data),
                       !.repeat = (/\ ret.op = "Delete" /\ ret.keys = keys
                                   /\ ret.hit)])
        /\ now' = now

SeqPop ==
    \E k \in Keys :
        LET r == MapPop(backend, st, k)
        IN /\ st' = r.st
           /\ firstStored' = Forget(firstStored, st')
           /\ lastStored' = Forget(lastStored, st')
           /\ Returns(Ret("Pop", k, r.value, r.ok, 0))
           /\ now' = now

SeqNext ==
    \E pick \in Picks(st) :
        LET r == MapNext(backend, st, pick)
        IN /\ st' = r.st
           /\ firstStored' = Forget(firstStored, st')
           /\ lastStored' = Forget(lastStored, st')
           /\ Returns(Ret("Next", r.key, r.value, r.ok, 0))
           /\ now' = now

\* The clock read by Len: any time since the last reading (only the SQLite
\* count cache reads it).
Clock == IF backend = "sqlite" THEN now..MaxTime ELSE {now}

SeqLen ==
    \E t \in Clock :
        LET r == MapLen(backend, st, t)
        IN /\ st' = r.st
           /\ now' = t
           /\ Returns(Ret("Len", ZeroK, ZeroV, TRUE, r.n))
           /\ UNCHANGED <<firstStored, lastStored>>

SeqClear ==
    /\ st' = MapClear(backend, st)
    /\ firstStored' = Forget(firstStored, st')
    /\ lastStored' = Forget(lastStored, st')
    /\ Returns(Ret("Clear", ZeroK, ZeroV, TRUE, 0))
    /\ now' = now

Next ==
    \/ SeqStore \/ SeqLoad \/ SeqDelete \/ SeqPop
    \/ SeqNext \/ SeqLen \/ SeqClear
    \/ SeqStoreUnencodable \/ SeqHas \/ SeqRange
    \/ SeqClose \/ SeqUseClosed \/ SeqReopen
    \/ SeqKeys

Init == SeqInit

Spec == Init /\ [][Next]_vars

\* ------------------------------ several goroutines, in-memory backends
\* The first step of each facade call.
Entry(name) ==
    CASE name = "Store" -> "Store_load"
      [] name = "Load" -> "Load"
      [] name = "Delete" -> "Delete_lock"
      [] name = "Len" -> "Len"
      [] name = "Next" -> "Next_range"
      [] name = "Range" -> "Range_rlock"
      [] name = "Pop" -> "Pop_load"

Fixed == UNCHANGED <<backend, allowOverwrite, now, ret, firstStored,
                     lastStored, keyOf, returned, toolVars>>

ConcInit ==
    /\ backend \in {"direct", "swiss"}
    /\ allowOverwrite \in BOOLEAN
    /\ st = NewStorage
    /\ now = 1
    /\ ret = NoRet
    /\ firstStored = [k \in Keys |-> NoVal]
    /\ lastStored = [k \in Keys |-> NoVal]
    /\ ThreadsInit
    /\ ToolsInit
    /\ budget = [t \in Threads |-> MaxOps]
    /\ keyOf \in [Threads -> Keys]

\* A goroutine calls one of the facade's operations on its key.
Begin(t, names) ==
    /\ pc[t] = "idle"
    /\ budget[t] > 0
    /\ \E name \in names :
       \E cb \in (IF name = "Range" THEN Callbacks ELSE {"none"}) :
       \E v \in (IF "Store" \in {name, cb} THEN Values ELSE {ZeroV}) :
          /\ call' = [call EXCEPT ![t] =
                         [NoCall EXCEPT !.name = name, !.key = keyOf[t],
                                        !.val = v, !.cb = cb]]
          /\ pc' = [pc EXCEPT ![t] = Entry(name)]
          /\ own' = [own EXCEPT ![t] =
                        CASE name = "Store" ->
                               MapStore(backend, allowOverwrite, @, keyOf[t], v)
                          [] name = "Delete" ->
                               MapDelete(backend, @, <<keyOf[t]>>)
                          [] OTHER -> @]
    /\ budget' = [budget EXCEPT ![t] = @ - 1]
    /\ UNCHANGED <<st, mutex, res>>
    /\ Fixed

\* The current call returns r: to the visitor loop of Range when it was made
\* by a visitor, to the goroutine otherwise.
Return(t, r) ==
    IF call[t].inRange
    THEN pc' = [pc EXCEPT ![t] = "Range_visit"] /\ UNCHANGED res
    ELSE pc' = [pc EXCEPT ![t] = "idle"] /\ res' = [res EXCEPT ![t] = r]

\* Map.Store, m.storage.Load: the read section of the storage's Load.
StoreLoad(t) ==
    /\ pc[t] = "Store_load"
    /\ CanRLock(mutex, t)
    /\ LET r == StorageLoad(backend, st, call[t].key)
       IN IF StoreGate(r.ok, allowOverwrite)
          THEN pc' = [pc EXCEPT ![t] = "Store_lock"] /\ UNCHANGED res
          ELSE Return(t, Result("Store", call[t].key, call[t].val, TRUE))
    /\ UNCHANGED <<st, mutex, call, budget, own>>
    /\ Fixed

\* Map.Store, m.storage.Store: c.mutex.Lock() is called.
StoreLock(t) ==
    /\ pc[t] = "Store_lock"
    /\ CanLockPending(mutex, t)
    /\ mutex' = LockPending(mutex, t)
    /\ pc' = [pc EXCEPT ![t] = "Store_wait"]
    /\ UNCHANGED <<st, call, res, budget, own>>
    /\ Fixed

\* Map.Store, m.storage.Store: the lock is acquired, the entry written and
\* the lock released.
StoreWrite(t) ==
    /\ pc[t] = "Store_wait"
    /\ CanLock(mutex, t)
    /\ st' = StorageStore(backend, st, call[t].key, call[t].val)
    /\ mutex' = Unlock(mutex, t)
    /\ Return(t, Result("Store", call[t].key, call[t].val, TRUE))
    /\ UNCHANGED <<call, budget, own>>
    /\ Fixed

\* Map.Load: the read section of the storage's Load.
LoadStep(t) ==
    /\ pc[t] = "Load"
    /\ CanRLock(mutex, t)
    /\ LET r == MapLoad(backend, st, call[t].key)
       IN Return(t, [Result("Load", call[t].key, r.value, r.ok) EXCEPT
                       !.expect = MapLoad(backend, own[t], call[t].key)])
    /\ UNCHANGED <<st, mutex, call, budget, own>>
    /\ Fixed

\* storage.Delete (called by Map.Delete or by the storage's Next):
\* c.mutex.Lock() is called.
DeleteLock(t) ==
    /\ pc[t] = "Delete_lock"
    /\ CanLockPending(mutex, t)
    /\ mutex' = LockPending(mutex, t)
    /\ pc' = [pc EXCEPT ![t] = "Delete_wait"]
    /\ UNCHANGED <<st, call, res, budget, own>>
    /\ Fixed

\* The value Next hands to the caller: the adapter decodes what the byte
\* storage returned.
NextValue(b, raw) ==
    IF b = "direct" THEN raw ELSE msgpackDecodeValue(raw).value

\* storage.Delete: the lock is acquired, the key deleted and the lock
\* released; a Next that called it returns the entry it had picked, a Pop
\* the value it had loaded.
DeleteWrite(t) ==
    /\ pc[t] = "Delete_wait"
    /\ CanLock(mutex, t)
    /\ st' = StorageDelete(backend, st, <<call[t].key>>)
    /\ mutex' = Unlock(mutex, t)
    /\ LET k == call[t].key
       IN IF call[t].name = "Next"
          THEN Return(t, [Result("Next", k, NextValue(backend, call[t].val),
                                 TRUE) EXCEPT
                            !.removed = /\ k \in DOMAIN st.data
                                        /\ st.data[k] = call[t].val])
          ELSE IF call[t].name = "Pop"
          THEN Return(t, Result("Pop", k, call[t].val, TRUE))
          ELSE Return(t, Result("Delete", k, ZeroV, TRUE))
    /\ UNCHANGED <<call, budget, own>>
    /\ Fixed

\* Map.Len: the read section of the storage's Len.
LenStep(t) ==
    /\ pc[t] = "Len"
    /\ CanRLock(mutex, t)
    /\ Return(t, [Result("Len", ZeroK, ZeroV, TRUE) EXCEPT
                    !.n = MapLen(backend, st, now).n,
                    !.quiet = \A u \in Threads \ {t} : pc[u] = "idle",
                    !.expectN = Cardinality(
                        {u \in Threads : MapHas(backend, own[u], keyOf[u])})])
    /\ UNCHANGED <<st, mutex, call, budget, own>>
    /\ Fixed

\* The entry the Range of Next stops at, on the storage that takes the lock.
StorageNextPick(b, s, pick) ==
    IF b = "direct" THEN DirectNextPick(s, pick) ELSE SwissNextPick(s, pick)

\* storage.Next, c.Range: under the read lock the first entry is picked;
\* the lock is released before the key is examined.
NextRange(t) ==
    /\ pc[t] = "Next_range"
    /\ CanRLock(mutex, t)
    /\ \E pick \in Picks(st) :
          LET p == StorageNextPick(backend, st, pick)
          IN IF NextFound(p.key)
             THEN /\ call' = [call EXCEPT ![t].key = p.key,
                                          ![t].val = p.value]
                  /\ pc' = [pc EXCEPT ![t] = "Delete_lock"]
                  /\ UNCHANGED res
             ELSE /\ Return(t, Result("Next", p.key, ZeroV, FALSE))
                  /\ UNCHANGED call
    /\ UNCHANGED <<st, mutex, budget, own>>
    /\ Fixed

\* storage.Range: c.mutex.RLock(); the lock is held until Range returns.
RangeRLock(t) ==
    /\ pc[t] = "Range_rlock"
    /\ CanRLock(mutex, t)
    /\ mutex' = RLock(mutex, t)
    /\ call' = [call EXCEPT ![t].todo = DOMAIN st.data, ![t].inRange = TRUE]
    /\ pc' = [pc EXCEPT ![t] = "Range_visit"]
    /\ UNCHANGED <<st, res, budget, own>>
    /\ Fixed

\* storage.Range: the visitor is called for the next entry and calls the
\* facade on another key.
RangeVisit(t) ==
    /\ pc[t] = "Range_visit"
    /\ \E k \in call[t].todo :
       \E other \in Keys \ {k} :
          /\ call' = [call EXCEPT ![t].todo = @ \ {k}, ![t].key = other]
          /\ pc' = [pc EXCEPT ![t] = Entry(call[t].cb)]
    /\ UNCHANGED <<st, mutex, res, budget, own>>
    /\ Fixed

\* storage.Range: every entry was visited; the deferred RUnlock runs.
RangeReturn(t) ==
    /\ pc[t] = "Range_visit"
    /\ call[t].todo = {}
    /\ mutex' = RUnlock(mutex, t)
    /\ call' = [call EXCEPT ![t].inRange = FALSE]
    /\ pc' = [pc EXCEPT ![t] = "idle"]
    /\ res' = [res EXCEPT ![t] = Result("Range", ZeroK, ZeroV, TRUE)]
    /\ UNCHANGED <<st, budget, own>>
    /\ Fixed

\* The map after every goroutine of S has stored value v under its key.
RECURSIVE Prestore(_, _, _)
Prestore(s, S, v) ==
    IF S = {} THEN s
    ELSE LET t == Min(S)
         IN Prestore(StorageStore(backend, s, keyOf[t], v), S \ {t}, v)

\* As ConcInit, after some of the goroutines have stored a value under
\* their key.
PrestoredInit ==
    /\ backend \in {"direct", "swiss"}
    /\ allowOverwrite \in BOOLEAN
    /\ now = 1
    /\ ret = NoRet
    /\ firstStored = [k \in Keys |-> NoVal]
    /\ lastStored = [k \in Keys |-> NoVal]
    /\ pc = [t \in Threads |-> "idle"]
    /\ call = [t \in Threads |-> NoCall]
    /\ res = [t \in Threads |-> NoRes]
    /\ mutex = NewMutex
    /\ returned = [k \in Keys |-> 0]
    /\ ToolsInit
    /\ budget = [t \in Threads |-> MaxOps]
    /\ keyOf \in [Threads -> Keys]
    /\ \E S \in SUBSET Threads :
          /\ st = Prestore(NewStorage, S, Min(Values))
          /\ own = [t \in Threads |->
                      Prestore(NewStorage, S \cap {t}, Min(Values))]

\* Goroutines calling Store, Load, Delete and Len.
ConcBegin(t) == Begin(t, {"Store", "Load", "Delete", "Len"})

ConcNext ==
    \E t \in Threads :
        \/ ConcBegin(t)
        \/ StoreLoad(t) \/ StoreLock(t) \/ StoreWrite(t)
        \/ LoadStep(t)
        \/ DeleteLock(t) \/ DeleteWrite(t)
        \/ LenStep(t)

ConcSpec == PrestoredInit /\ [][ConcNext]_vars

\* Goroutines calling Next, Store and Delete.
NextBegin(t) == Begin(t, {"Next", "Store", "Delete"})

NextNext ==
    \E t \in Threads :
        \/ NextBegin(t)
        \/ NextRange(t)
        \/ StoreLoad(t) \/ StoreLock(t) \/ StoreWrite(t)
        \/ DeleteLock(t) \/ DeleteWrite(t)

NextSpec == ConcInit /\ [][NextNext]_vars

\* Goroutines calling Range (with a visitor that calls Load, Store or
\* Delete), Store and Delete.
RangeBegin(t) == Begin(t, {"Range", "Store", "Delete"})

RangeNext ==
    \E t \in Threads :
        \/ RangeBegin(t)
        \/ RangeRLock(t) \/ RangeVisit(t) \/ RangeReturn(t)
        \/ LoadStep(t)
        \/ StoreLoad(t) \/ StoreLock(t) \/ StoreWrite(t)
        \/ DeleteLock(t) \/ DeleteWrite(t)

RangeSpec == ConcInit /\ [][RangeNext]_vars

\* ------------------------------ several goroutines, persistent backends
ByteFixed == UNCHANGED <<backend, allowOverwrite, now, ret, firstStored,
                         lastStored, keyOf, own, budget, toolVars>>

\* A storage in which the keys of S were stored before the goroutines start.
RECURSIVE Stocked(_, _)
Stocked(b, S) ==
    IF S = {} THEN NewStorage
    ELSE LET k == Min(S)
         IN StorageStore(b, Stocked(b, S \ {k}), k, Min(Values))

ByteInit ==
    /\ backend \in Persistent
    /\ allowOverwrite = TRUE
    /\ st \in {Stocked(backend, S) : S \in SUBSET Keys}
    /\ now = 1
    /\ ret = NoRet
    /\ firstStored = [k \in Keys |-> NoVal]
    /\ lastStored = [k \in Keys |-> NoVal]
    /\ ThreadsInit
    /\ ToolsInit
    /\ budget = [t \in Threads |-> MaxOps]
    /\ keyOf = [t \in Threads |-> ZeroK]

\* The first step of each call on a persistent backend.
ByteEntry(name) ==
    CASE name = "Load" -> "BLoad"
      [] name = "Delete" -> "BDelete"
      [] name = "Next" -> "BNext"

\* A goroutine calls Next, Load of a key or Delete of a list of keys.
ByteBegin(t) ==
    /\ pc[t] = "idle"
    /\ budget[t] > 0
    /\ \E name \in {"Next", "Load", "Delete"} :
       \E k \in (IF name = "Load" THEN Keys ELSE {ZeroK}) :
       \E keys \in (IF name = "Delete" THEN KeyLists ELSE {<<>>}) :
          /\ call' = [call EXCEPT ![t] =
                         [NoCall EXCEPT !.name = name, !.key = k,
                                        !.keys = keys]]
          /\ pc' = [pc EXCEPT ![t] = ByteEntry(name)]
    /\ budget' = [budget EXCEPT ![t] = @ - 1]
    /\ UNCHANGED toolVars
    /\ UNCHANGED <<st, mutex, res, returned, backend, allowOverwrite, now,
                   ret, firstStored, lastStored, keyOf, own>>

\* The call of goroutine t returns r.
ByteReturn(t, r) ==
    /\ pc' = [pc EXCEPT ![t] = "idle"]
    /\ res' = [res EXCEPT ![t] = r]
    /\ returned' = IF r.op = "Next" /\ r.ok
                   THEN [returned EXCEPT ![r.key] = @ + 1]
                   ELSE returned

\* storage.Delete has gone through its keys. Called by Next, it returns to
\* Next, which returns the entry it read to the adapter, which decodes it.
DeleteDone(t, s) ==
    IF call[t].name = "Next"
    THEN LET d == msgpackDecodeValue(call[t].val)
         IN ByteReturn(t, [Result("Next", call[t].key,
                                  IF d.err THEN ZeroV ELSE d.value,
                                  ~d.err) EXCEPT
                             !.removed = call[t].key \notin DOMAIN s.data])
    ELSE ByteReturn(t, Result("Delete", ZeroK, ZeroV, TRUE))

\* Load: a read-only transaction (Badger), a GET (Redis), a SELECT under
\* the read lock (SQLite).
ByteLoad(t) ==
    /\ pc[t] = "BLoad"
    /\ backend = "sqlite" => CanRLock(mutex, t)
    /\ LET r == MapLoad(backend, st, call[t].key)
       IN ByteReturn(t, Result("Load", call[t].key, r.value, r.ok))
    /\ UNCHANGED <<st, mutex, call>>
    /\ ByteFixed

\* txn.Delete and len.Add(-1) of Badger's Delete.
BadgerDeleteUpdate(s, k) ==
    [s EXCEPT !.data = Remove(@, k), !.len = @ - 1]

\* Badger's Delete, c.Load of the next key: a key that is not found is
\* passed over.
BadgerDeleteLoad(t) ==
    /\ pc[t] = "BDelete"
    /\ backend = "badger"
    /\ IF call[t].keys = <<>>
       THEN DeleteDone(t, st) /\ UNCHANGED call
       ELSE /\ IF BadgerLoad(st, Head(call[t].keys)).ok
               THEN /\ pc' = [pc EXCEPT ![t] = "BDelete_update"]
                    /\ UNCHANGED call
               ELSE /\ call' = [call EXCEPT ![t].keys = Tail(@)]
                    /\ UNCHANGED pc
            /\ UNCHANGED <<res, returned>>
    /\ UNCHANGED <<st, mutex>>
    /\ ByteFixed

\* Badger's Delete, c.db.Update: the key is deleted and the counter
\* decremented.
BadgerDeleteCommit(t) ==
    /\ pc[t] = "BDelete_update"
    /\ st' = BadgerDeleteUpdate(st, Head(call[t].keys))
    /\ call' = [call EXCEPT ![t].keys = Tail(@)]
    /\ pc' = [pc EXCEPT ![t] = "BDelete"]
    /\ UNCHANGED <<mutex, res, returned>>
    /\ ByteFixed

\* Redis's Delete: one DEL for the next key.
RedisDeleteDel(t) ==
    /\ pc[t] = "BDelete"
    /\ backend = "redis"
    /\ IF call[t].keys = <<>>
       THEN DeleteDone(t, st) /\ UNCHANGED <<call, st>>
       ELSE /\ st' = RedisDelete(st, <<Head(call[t].keys)>>)
            /\ call' = [call EXCEPT ![t].keys = Tail(@)]
            /\ UNCHANGED <<pc, res, returned>>
    /\ UNCHANGED mutex
    /\ ByteFixed

\* SQLite's Delete: nothing to do for no keys, s.mutex.Lock() otherwise.
SqliteDeleteLock(t) ==
    /\ pc[t] = "BDelete"
    /\ backend = "sqlite"
    /\ IF call[t].keys = <<>>
       THEN DeleteDone(t, st) /\ UNCHANGED mutex
       ELSE /\ CanLockPending(mutex, t)
            /\ mutex' = LockPending(mutex, t)
            /\ pc' = [pc EXCEPT ![t] = "BDelete_wait"]
            /\ UNCHANGED <<res, returned>>
    /\ UNCHANGED <<st, call>>
    /\ ByteFixed

\* SQLite's Delete: with the lock held, the transaction runs one DELETE per
\* key and commits; the lock is released.
SqliteDeleteCommit(t) ==
    /\ pc[t] = "BDelete_wait"
    /\ CanLock(mutex, t)
    /\ LET keys == call[t].keys
           keyset == {keys[i] : i \in DOMAIN keys}
           listed == keyset \cap DOMAIN st.data
       IN \E failed \in SUBSET keyset, commitOk \in BOOLEAN :
             /\ st' = SqliteDeleteTx(st, keys, failed, commitOk)
             /\ ByteReturn(t, [Result("Delete", ZeroK, ZeroV, TRUE) EXCEPT
                                 !.listed = listed,
                                 !.gone = listed \ DOMAIN st'.data])
    /\ mutex' = Unlock(mutex, t)
    /\ UNCHANGED call
    /\ ByteFixed

\* Badger's Next, c.db.View: the iterator is rewound and the first item of
\* the snapshot read; c.Delete is called for its key.
BadgerNextView(t) ==
    /\ pc[t] = "BNext"
    /\ backend = "badger"
    /\ IF DOMAIN st.data = {}
       THEN /\ ByteReturn(t, Result("Next", ZeroK, ZeroV, FALSE))
            /\ UNCHANGED call
       ELSE LET key == Min(DOMAIN st.data)
            IN /\ call' = [call EXCEPT ![t].key = key,
                                       ![t].val = st.data[key],
                                       ![t].keys = <<key>>]
               /\ pc' = [pc EXCEPT ![t] = "BDelete"]
               /\ UNCHANGED <<res, returned>>
    /\ UNCHANGED <<st, mutex>>
    /\ ByteFixed

\* Redis's Next, c.scan: the first of the keys SCAN returns is taken.
RedisNextScan(t) ==
    /\ pc[t] = "BNext"
    /\ backend = "redis"
    /\ IF RedisScan(st) = {}
       THEN /\ ByteReturn(t, Result("Next", ZeroK, ZeroV, FALSE))
            /\ UNCHANGED call
       ELSE \E pick \in RedisScan(st) :
               /\ call' = [call EXCEPT ![t].key = pick]
               /\ pc' = [pc EXCEPT ![t] = "BNext_get"]
               /\ UNCHANGED <<res, returned>>
    /\ UNCHANGED <<st, mutex>>
    /\ ByteFixed

\* Redis's Next, GET of that key: an error, redis.Nil for a key that is gone
\* included, panics; otherwise c.Delete is called for the key.
RedisNextGet(t) ==
    /\ pc[t] = "BNext_get"
    /\ LET r == RedisLoad(st, call[t].key)
       IN IF ~r.ok
          THEN pc' = [pc EXCEPT ![t] = "panicked"] /\ UNCHANGED call
          ELSE /\ call' = [call EXCEPT ![t].val = r.value,
                                       ![t].keys = <<call[t].key>>]
               /\ pc' = [pc EXCEPT ![t] = "BDelete"]
    /\ UNCHANGED <<st, mutex, res, returned>>
    /\ ByteFixed

\* SQLite's Next: s.mutex.Lock() is called.
SqliteNextLock(t) ==
    /\ pc[t] = "BNext"
    /\ backend = "sqlite"
    /\ CanLockPending(mutex, t)
    /\ mutex' = LockPending(mutex, t)
    /\ pc' = [pc EXCEPT ![t] = "BNext_wait"]
    /\ UNCHANGED <<st, call, res, returned>>
    /\ ByteFixed

\* SQLite's Next: with the lock held, a row is selected and deleted; the
\* lock is released and the adapter decodes the value.
SqliteNextCommit(t) ==
    /\ pc[t] = "BNext_wait"
    /\ CanLock(mutex, t)
    /\ \E pick \in Picks(st) :
          LET r == MapNext(backend, st, pick)
          IN /\ st' = r.st
             /\ ByteReturn(t, [Result("Next", r.key, r.value, r.ok) EXCEPT
                                 !.removed = r.key \notin DOMAIN r.st.data])
    /\ mutex' = Unlock(mutex, t)
    /\ UNCHANGED call
    /\ ByteFixed

ByteNext ==
    \E t \in Threads :
        \/ ByteBegin(t)
        \/ ByteLoad(t)
        \/ BadgerDeleteLoad(t) \/ BadgerDeleteCommit(t)
        \/ RedisDeleteDel(t)
        \/ SqliteDeleteLock(t) \/ SqliteDeleteCommit(t)
        \/ BadgerNextView(t)
        \/ RedisNextScan(t) \/ RedisNextGet(t)
        \/ SqliteNextLock(t) \/ SqliteNextCommit(t)

ByteSpec == ByteInit /\ [][ByteNext]_vars

\* ------------------------------------------------ claims, one caller (Spec)

\* C1: when Load(k) is called after Store calls on k with no removal of k in
\* between, it finds k; it returns the value of the first of those Store
\* calls when the facade was constructed with allowOverwrite=false and the
\* value of the latest one when it was constructed with allowOverwrite=true.
C1_OverwritePolicy ==
    (ret.op = "Load" /\ firstStored[ret.key] # NoVal) =>
        /\ ret.ok
        /\ ret.value = IF allowOverwrite THEN lastStored[ret.key]
                       ELSE firstStored[ret.key]

\* A Load that followed two Store calls of different values on its key, with
\* overwriting denied.
C1_Witness ==
    /\ ret.op = "Load" /\ ret.ok /\ ~allowOverwrite
    /\ firstStored[ret.key] # NoVal
    /\ lastStored[ret.key] # firstStored[ret.key]

\* C2: Next reports found=false only when the map holds no entry, so that
\* repeated Next calls on a map of N entries return N keys with found=true
\* before the first found=false, also when a stored key is the zero value.
C2_NextDrainsEveryEntry ==
    (ret.op = "Next" /\ ~ret.ok) => DOMAIN st.data = {}

\* C4: Len() returns the number of distinct keys k for which Has(k) is true,
\* after any sequence of Store and Delete calls, on every backend.
C4_LenCountsPresentKeys ==
    ret.op = "Len" =>
        ret.n = Cardinality({k \in Keys : MapHas(backend, st, k)})

\* C5: a Len() call that immediately follows Clear() returns 0, on every
\* backend, whatever was called before the Clear.
C5_LenAfterClearIsZero ==
    (ret.op = "Len" /\ ret.afterClear) => ret.n = 0

\* A Len right after a Clear on the backend with the time-based count cache,
\* which counted the rows anew and cached the count.
C5_Witness ==
    /\ ret.op = "Len" /\ ret.afterClear
    /\ backend = "sqlite" /\ st.lastCount = now /\ st.countCache = 0

\* C10: Pop(k) on a present key returns (the stored value, true) and
\* afterwards Has(k) is false; Pop(k) on an absent key returns found=false and
\* leaves the backend (every entry, Len and its counters) unchanged.
C10_PopConsistency ==
    [][ret'.op = "Pop" =>
         LET k == ret'.key
             before == MapLoad(backend, st, k)
         IN IF before.ok
            THEN /\ ret'.ok
                 /\ ret'.value = before.value
                 /\ ~MapHas(backend, st', k)
            ELSE /\ ~ret'.ok
                 /\ st' = st]_vars

\* A Pop that found its key and returned a stored value.
C10_Witness ==
    /\ ret.op = "Pop" /\ ret.ok /\ ret.value \in Values
    /\ ~MapHas(backend, st, ret.key)

\* --------------------------------- claims, several goroutines (in-memory)

\* C3: under every interleaving of concurrent Next, Store and Delete calls on
\* the in-memory and Swiss storages, the (key, value) that a Next call
\* returns with found=true is the entry that this same call removed (so no
\* stored entry is returned by two Next calls).
C3_NextIsAtomic ==
    \A t \in Threads : (res[t].op = "Next" /\ res[t].ok) => res[t].removed

\* A goroutine is inside a call that the visitor of its Range made.
InVisitor(t, cbs) ==
    /\ call[t].inRange
    /\ call[t].cb \in cbs
    /\ pc[t] # "Range_visit"

\* C6: a Range whose visitor calls Load or Store on a key other than the
\* visited one does not deadlock, also while other goroutines call Store or
\* Delete: while such a visitor call is in progress (and no visitor calls
\* Delete) some goroutine can always take a step.
C6_VisitorLoadStoreNoDeadlock ==
    \A t \in Threads :
        (/\ InVisitor(t, {"Load", "Store"})
         /\ \A u \in Threads : ~(call[u].inRange /\ call[u].cb = "Delete"))
        => ENABLED RangeNext

\* C7: a Delete called from inside a Range visitor never returns, and so
\* neither does the enclosing Range: a goroutine inside such a Delete stays
\* inside it in every step.
C7_DeleteInRangeDeadlocks ==
    [][\A t \in Threads :
         InVisitor(t, {"Delete"}) => InVisitor(t, {"Delete"})']_vars

\* A visitor's Delete has called Lock and waits for the read lock its own
\* Range holds.
C7_Witness ==
    \E t \in Threads :
        /\ InVisitor(t, {"Delete"})
        /\ pc[t] = "Delete_wait"
        /\ mutex.writer = t
        /\ mutex.readers[t] > 0

\* No other goroutine uses the key of goroutine t.
OwnKey(t) == \A u \in Threads \ {t} : keyOf[u] # keyOf[t]

\* C8: goroutines that concurrently Store, Load and Delete distinct keys of
\* one shared map do not disturb each other: every Load returns what it
\* would return had the goroutine been alone, between its calls the
\* goroutine's key holds what its own calls left there, and a Len taken
\* while no other call is in progress counts exactly the keys present.
C8_ConcurrencySafety ==
    /\ \A t \in Threads :
         OwnKey(t) =>
            /\ (res[t].op = "Load") =>
                   /\ res[t].ok = res[t].expect.ok
                   /\ res[t].value = res[t].expect.value
            /\ (pc[t] = "idle") =>
                   MapLoad(backend, st, keyOf[t])
                       = MapLoad(backend, own[t], keyOf[t])
    /\ \A t \in Threads :
         (/\ \A u \in Threads : OwnKey(u)
          /\ res[t].op = "Len"
          /\ res[t].quiet)
         => res[t].n = res[t].expectN

\* Distinct keys; one goroutine's Load found its value while another
\* goroutine, done with its calls, had counted every goroutine's key.
C8_Witness ==
    /\ \A u \in Threads : OwnKey(u)
    /\ \E t, u \in Threads :
         /\ t # u
         /\ res[t].op = "Load" /\ res[t].ok /\ res[t].value \in Values
         /\ res[u].op = "Len" /\ res[u].quiet
         /\ res[u].n = Cardinality(Threads)
         /\ budget[u] = 0

\* C9: with allowOverwrite=false the facade's Load-then-Store is serialized:
\* of several concurrent Store(k, v_i) calls exactly one writes, so the value
\* of a present key is never replaced by a Store.
C9_DenyNeverReplaces ==
    [][~allowOverwrite =>
         \A k \in Keys :
             (k \in DOMAIN st.data /\ k \in DOMAIN st'.data)
             => st'.data[k] = st.data[k]]_vars

\* C11: on every backend, Store(k, v) of an encodable value v that reaches
\* the storage, immediately followed by Load(k), returns (v, true).
C11_StoreThenLoad ==
    [][(/\ ret.op = "Store" /\ ret.ok /\ ret.value \in Values
        /\ ret'.op = "Load" /\ ret'.key = ret.key)
       => (ret'.ok /\ ret'.value = ret.value)]_vars

\* A Load on a persistent backend returns the value the last Store left.
C11_Witness ==
    /\ backend \in Persistent
    /\ ret.op = "Load" /\ ret.ok
    /\ ret.value = MaxVal /\ lastStored[ret.key] = MaxVal

\* The entries of the backend and what Len returns for them.
Observed(s) == [data |-> s.data, n |-> MapLen(backend, s, now).n]

\* C12: a Delete that repeats the keys of the Delete before it leaves the
\* backend (its entries and its Len) as that Delete left it, and a Delete
\* of keys that are not stored, or of no keys, changes neither.
C12_DeleteIdempotent ==
    [][ret'.op = "Delete" =>
          /\ (ret.op = "Delete" /\ ret'.keys = ret.keys)
                => Observed(st') = Observed(st)
          /\ (\A i \in DOMAIN ret'.keys : ret'.keys[i] \notin DOMAIN st.data)
                => Observed(st') = Observed(st)]_vars

\* Badger, with its counter in use: a Delete removed a stored key and the
\* same Delete was called again, while another entry is still stored.
C12_Witness ==
    /\ backend = "badger" /\ st.initLenCall
    /\ ret.op = "Delete" /\ ret.repeat /\ Len(ret.keys) = 1
    /\ st.data # EmptyMap

\* The keys whose entry Load finds.
Present == {k \in Keys : MapHas(backend, st, k)}

\* C13 as stated: on a map that holds an entry, a Range whose visitor
\* returns false at its first call calls the visitor exactly once.
C13_StopAfterFirst_Stated ==
    (ret.op = "Range" /\ ret.stop /\ st.data # EmptyMap)
        => Len(ret.visited) = 1

\* C13: on a map that holds an entry Load finds, a Range whose visitor
\* returns false at its first call calls the visitor exactly once.
C13_StopAfterFirst ==
    (ret.op = "Range" /\ ret.stop /\ Present # {})
        => Len(ret.visited) = 1

\* Such a Range ran on a map with more than one entry Load finds.
C13_Witness ==
    /\ ret.op = "Range" /\ ret.stop
    /\ Cardinality(Present) > 1
    /\ Len(ret.visited) = 1

\* C14: a Range whose visitor always returns true calls it once for every
\* entry Load finds, with the value Load returns, and for nothing else.
C14_RangeVisitsAll ==
    (ret.op = "Range" /\ ~ret.stop) =>
        /\ \A i, j \in DOMAIN ret.visited :
               ret.visited[i].key = ret.visited[j].key => i = j
        /\ {ret.visited[i] : i \in DOMAIN ret.visited}
               = {[key |-> k, value |-> MapLoad(backend, st, k).value] :
                      k \in Present}

\* Such a Range visited two entries with different values.
C14_Witness ==
    /\ ret.op = "Range" /\ ~ret.stop
    /\ Len(ret.visited) = 2
    /\ ret.visited[1].value # ret.visited[2].value

\* C15: Load and Has leave the backend as it was: its entries and their
\* values, its Len counter and its cached count.
C15_LoadChangesNothing ==
    [][ret'.op \in {"Load", "Has"} => st' = st]_vars

\* A Load missed on a SQLite backend that holds a cached count of entries.
C15_Witness ==
    /\ backend = "sqlite"
    /\ ret.op = "Load" /\ ~ret.ok
    /\ st.lastCount # 0 /\ st.countCache > 0

\* C19: a Store of a value the adapter cannot encode leaves the wrapped
\* backend as it was, and every key still loads what it loaded before.
C19_UnencodableStoreDropped ==
    [][(ret'.op = "Store" /\ ret'.value = UnencodableV) =>
          /\ st' = st
          /\ \A k \in Keys :
                 MapLoad(backend, st', k) = MapLoad(backend, st, k)]_vars

\* Such a Store reached the adapter for a key that holds a value, and Load
\* still returns the value stored before.
C19_Witness ==
    /\ ret.op = "Store" /\ ret.value = UnencodableV /\ ret.ok
    /\ MapLoad(backend, st, ret.key).ok
    /\ MapLoad(backend, st, ret.key).value = lastStored[ret.key]

\* The keys stored with bytes that are not valid MessagePack.
Undecodable ==
    {k \in DOMAIN st.data : backend # "direct" /\ st.data[k] = BadBytes}

\* C20: Load of a key whose stored bytes do not decode returns the zero
\* value and found=false, and a Range whose visitor always returns true
\* visits exactly the other stored entries.
C20_UndecodableIsSkipped ==
    /\ (ret.op = "Load" /\ ret.key \in Undecodable)
           => (~ret.ok /\ ret.value = ZeroV)
    /\ (ret.op = "Range" /\ ~ret.stop)
           => {ret.visited[i].key : i \in DOMAIN ret.visited}
                  = DOMAIN st.data \ Undecodable

\* A Range passed over an undecodable entry and visited another one.
C20_Witness ==
    /\ ret.op = "Range" /\ ~ret.stop
    /\ Undecodable # {}
    /\ Len(ret.visited) > 0

\* ---------------------- claims, several goroutines (persistent backends)

\* C16: on Badger and Redis, under every interleaving of concurrent Next
\* calls, no stored entry is returned by more than one of them (no key is
\* stored again in these behaviours, so a key names one stored entry).
C16_NextReturnsEntryOnce ==
    backend \in {"badger", "redis"} => \A k \in Keys : returned[k] <= 1

\* C17: on SQLite a Delete of several keys removes all of the listed keys
\* that were stored or none of them.
C17_DeleteAllOrNone ==
    \A t \in Threads :
        (backend = "sqlite" /\ res[t].op = "Delete")
            => res[t].gone \in {res[t].listed, {}}

\* C18: on SQLite an entry Next returns with found=true is no longer in the
\* table when Next returns, and no stored entry is returned by two Next
\* calls (no key is stored again in these behaviours).
C18_SqliteNextCriticalSection ==
    backend = "sqlite" =>
        /\ \A t \in Threads :
               (res[t].op = "Next" /\ res[t].ok) => res[t].removed
        /\ \A k \in Keys : returned[k] <= 1

\* Two goroutines called Next on SQLite and each returned an entry.
C18_Witness ==
    /\ backend = "sqlite"
    /\ \A t \in Threads : res[t].op = "Next" /\ res[t].ok
    /\ \E t, u \in Threads : res[t].key # res[u].key

\* ------------------------------------------ claims, third group (Spec)

\* C21: when the entry the wrapped backend's Next removed and returned has
\* bytes that do not decode, the adapter's Next returns found=false.
C21_NextUndecodableNotFound ==
    [][(/\ ret'.op = "Next" /\ backend # "direct"
        /\ ret'.key \in DOMAIN st.data
        /\ ret'.key \notin DOMAIN st'.data
        /\ st.data[ret'.key] = BadBytes)
       => (~ret'.ok /\ ret'.value = ZeroV)]_vars

\* Next removed an undecodable entry, returned found=false, and another
\* entry is still stored.
C21_Witness ==
    /\ ret.op = "Next" /\ ~ret.ok
    /\ backend \in Persistent
    /\ ret.key \notin DOMAIN st.data
    /\ st.data # EmptyMap

\* C27: on Redis, a Next whose scanned key is gone when its value is
\* fetched does not crash its caller.
C27_RedisVanishedKeyNoCrash ==
    backend = "redis" => \A t \in Threads : pc[t] # "panicked"

\* C28: after Close has returned, no Store, Load, Delete, Range or Next on
\* the backend writes or reads an entry.
C28_ClosedIsUnusable ==
    (ret.closed /\ ret.op \in {"Store", "Load", "Delete", "Range", "Next"})
        => (~ret.ok /\ ~ret.hit /\ ret.visited = <<>>)

\* C25: Keys on the Redis storage returns every stored key once, whatever
\* the order of the server's iteration and the size of its pages.
C25_RedisKeysComplete ==
    ret.op = "Keys" =>
        /\ \A i, j \in DOMAIN ret.keys : ret.keys[i] = ret.keys[j] => i = j
        /\ {ret.keys[i] : i \in DOMAIN ret.keys} = DOMAIN st.data

\* Keys returned more keys than one page of its scan holds.
C25_Witness ==
    /\ ret.op = "Keys"
    /\ ret.n < Len(ret.keys)

\* ------------------------------------- the adapter's codec, for any type V
\* The value types of the model: Go's int and string, two struct types of
\* one field that are both written myType in the package storage (as the
\* two local types of msgpackAdapter_unit_test.go are), and the pointer to
\* the first of them.
IntT == "int"
StringT == "string"
StructZ == "struct{ Z int }"
StructQ == "struct{ Q int }"
\* interface{}, as a type argument V.
AnyT == "interface {}"
ConcreteTypes == {IntT, StringT, StructZ, StructQ}
\* The type of a pointer to a struct.
PtrZ == "*struct{ Z int }"
\* reflect.Type.Elem() of a pointer type.
Elem(T) == IF T = PtrZ THEN StructZ ELSE T
\* The types msgpack.Unmarshal produces for an interface{} destination.
Int8T == "int8"
MapT == "map[string]interface {}"

\* reflect.Type.String(): the package name and the type's name.
TypeString(T) ==
    IF T \in {StructZ, StructQ} THEN "storage.myType"
    ELSE IF T = PtrZ THEN "*storage.myType"
    ELSE T

\* The name of the one exported field of a struct type.
FieldOf(T) == IF T = StructZ THEN "Z" ELSE "Q"

\* A value of a type: n is the integer, the string or the field of the struct.
Val(T, n) == [type |-> T, n |-> n]
\* The nil interface value.
NilVal == [type |-> "nil"]
\* The value a map[string]interface{} of one entry has.
MapVal(f, n) == [type |-> MapT, field |-> f, n |-> n]
\* The zero value of type T.
ZeroOf(T) == IF T = AnyT THEN NilVal ELSE Val(T, 0)

\* The values a caller stores through a map of value type V: nil and one
\* value of each type that is not the type's zero value.
TypedValues(V) ==
    IF V = AnyT
    THEN {NilVal} \cup {Val(T, MaxVal) : T \in ConcreteTypes \cup {PtrZ}}
    ELSE {Val(V, MaxVal)}

\* msgpack.Marshal: nil, an integer, a string or a map of one entry; a
\* value of another type (a func, a channel) is rejected.
Marshal(v) ==
    CASE v.type = "nil" -> [bytes |-> [shape |-> "nil"], err |-> FALSE]
      [] v.type \in {IntT, Int8T} ->
            [bytes |-> [shape |-> "int", n |-> v.n], err |-> FALSE]
      [] v.type = StringT ->
            [bytes |-> [shape |-> "str", n |-> v.n], err |-> FALSE]
      [] v.type \in {StructZ, StructQ, PtrZ} ->
            [bytes |-> [shape |-> "map", field |-> FieldOf(Elem(v.type)),
                        n |-> v.n], err |-> FALSE]
      [] v.type = MapT ->
            [bytes |-> [shape |-> "map", field |-> v.field, n |-> v.n],
             err |-> FALSE]
      [] OTHER -> [bytes |-> NilBytes, err |-> TRUE]

\* msgpack.Unmarshal into a destination of type T. An interface{} receives
\* an int8, a string or a map; nil leaves the zero value; a struct ignores
\* a field it does not have; any other mismatch is an error.
Unmarshal(w, T) ==
    CASE w.shape = "nil" -> [value |-> ZeroOf(T), err |-> FALSE]
      [] w.shape = "int" ->
            IF T = AnyT THEN [value |-> Val(Int8T, w.n), err |-> FALSE]
            ELSE IF T = IntT THEN [value |-> Val(IntT, w.n), err |-> FALSE]
            ELSE [value |-> ZeroOf(T), err |-> TRUE]
      [] w.shape = "str" ->
            IF T \in {AnyT, StringT}
            THEN [value |-> Val(StringT, w.n), err |-> FALSE]
            ELSE [value |-> ZeroOf(T), err |-> TRUE]
      [] w.shape = "map" ->
            IF T = AnyT THEN [value |-> MapVal(w.field, w.n), err |-> FALSE]
            ELSE IF T \in {StructZ, StructQ}
            THEN [value |-> Val(T, IF w.field = FieldOf(T) THEN w.n ELSE 0),
                  err |-> FALSE]
            ELSE [value |-> ZeroOf(T), err |-> TRUE]

\* The type tag of an envelope that carries none.
NoTag == ""

\* Mutant of RegisterMsgpackType: a name that is registered keeps its type.
RegisterMsgpackTypeOnce(reg, T, pointer) ==
    IF TypeString(T) \in DOMAIN reg THEN reg ELSE Put(reg, TypeString(T), T)

\* RegisterMsgpackType with a value of type T or, when pointer, of type *T:
\* the element type is entered under its name, whatever the name held.
RegisterMsgpackType(reg, T, pointer) == Put(reg, TypeString(T), T)

\* msgpackEncodeValue[V]: the envelope of v and the registry after the call;
\* the type of a value that is not nil is registered unless the name of
\* that type, which for a pointer begins with "*", is in the registry.
msgpackEncodeValueOf(reg, v) ==
    LET tagged == v.type # "nil"
        reg1 == IF tagged /\ TypeString(v.type) \notin DOMAIN reg
                THEN RegisterMsgpackType(reg, Elem(v.type), v.type = PtrZ)
                ELSE reg
        m == Marshal(v)
    IN [bytes |-> IF m.err THEN NilBytes
                  ELSE [data |-> m.bytes,
                        type |-> IF tagged THEN TypeString(v.type) ELSE NoTag],
        err |-> m.err,
        reg |-> reg1]

\* "Re-encode the data part" and decode it into a destination of type T:
\* rawData is what the envelope's data decoded to as an interface{}.
DecodeData(data, T) ==
    LET rawData == Unmarshal(data, AnyT).value
    IN Unmarshal(Marshal(rawData).bytes, T)

\* Mutant of msgpackDecodeValueInto: a registered type is not looked up.
msgpackDecodeValueDirect(reg, bytes, V) ==
    IF bytes = NilBytes THEN [value |-> ZeroOf(V), err |-> FALSE]
    ELSE IF bytes = BadBytes THEN [value |-> ZeroOf(V), err |-> TRUE]
    ELSE DecodeData(bytes.data, V)

\* Mutant of msgpackDecodeValueInto: a type tag that is not registered is
\* an error.
msgpackDecodeValueStrict(reg, bytes, V) ==
    IF bytes = NilBytes THEN [value |-> ZeroOf(V), err |-> FALSE]
    ELSE IF bytes = BadBytes THEN [value |-> ZeroOf(V), err |-> TRUE]
    ELSE IF bytes.type = NoTag THEN DecodeData(bytes.data, V)
    ELSE IF bytes.type \notin DOMAIN reg
    THEN [value |-> ZeroOf(V), err |-> TRUE]
    ELSE DecodeData(bytes.data, V)

\* msgpackDecodeValue[V].
msgpackDecodeValueInto(reg, bytes, V) ==
    IF bytes = NilBytes THEN [value |-> ZeroOf(V), err |-> FALSE]
    ELSE IF bytes = BadBytes THEN [value |-> ZeroOf(V), err |-> TRUE]
    ELSE IF bytes.type = NoTag \/ bytes.type \notin DOMAIN reg
    THEN DecodeData(bytes.data, V)
    ELSE LET newValue == DecodeData(bytes.data, reg[bytes.type])
         IN IF newValue.err THEN [value |-> ZeroOf(V), err |-> TRUE]
            ELSE IF V = AnyT THEN [value |-> newValue.value, err |-> FALSE]
            ELSE DecodeData(bytes.data, V)

\* --------------------------- one caller of a map of value type V, any
\* persistent backend under the adapter, and the process's type registry
\* The key the caller uses (the "s1" of the scenario).
CodecKeys == {ZeroK}
\* No value stored under a key.
NoTyped == [type |-> "none"]

\* The last call and what it returned; reopened: the storage was closed and
\* constructed again on its location since the last Store.
CodecRet(op, k, v, ok, reopened) ==
    [op |-> op, key |-> k, value |-> v, ok |-> ok, reopened |-> reopened]

\* Variables of the other specifications, at rest.
CodecFixed ==
    UNCHANGED <<backend, allowOverwrite, now, firstStored, valueType,
                concVars, server, prefix, mig, cachingMutex>>

CodecInit ==
    /\ backend \in Persistent
    /\ allowOverwrite = TRUE
    /\ st = NewStorage
    /\ now = 1
    /\ ret = CodecRet("New", ZeroK, NilVal, FALSE, FALSE)
    /\ firstStored = [k \in Keys |-> NoVal]
    /\ lastStored = [k \in Keys |-> NoTyped]
    /\ ThreadsInit
    /\ budget = [t \in Threads |-> 0]
    /\ keyOf = [t \in Threads |-> ZeroK]
    /\ typeRegistry = EmptyMap
    /\ valueType \in {AnyT} \cup ConcreteTypes
    /\ server = EmptyMap
    /\ prefix = <<>>
    /\ mig = NoRun
    /\ cachingMutex = NewMutex

\* msgpackAdapter.Store of a value of type V: the value is encoded, its type
\* registered, and the write dropped when the encoding fails.
CodecStore ==
    /\ Usable(backend, st)
    /\ st.len < MaxLenCounter
    /\ \E k \in CodecKeys, v \in TypedValues(valueType) :
          LET e == msgpackEncodeValueOf(typeRegistry, v)
          IN /\ typeRegistry' = e.reg
             /\ st' = IF e.err THEN st ELSE BytesStore(backend, st, k, e.bytes)
             /\ lastStored' = IF e.err THEN lastStored
                              ELSE [lastStored EXCEPT ![k] = v]
             /\ ret' = CodecRet("Store", k, v, ~e.err, FALSE)
    /\ CodecFixed

\* msgpackAdapter.Load into a value of type V.
CodecLoad ==
    /\ Usable(backend, st)
    /\ \E k \in CodecKeys :
          LET r == BytesLoad(backend, st, k)
              d == msgpackDecodeValueInto(typeRegistry, r.value, valueType)
          IN ret' = IF r.ok /\ ~d.err
                    THEN CodecRet("Load", k, d.value, TRUE, ret.reopened)
                    ELSE CodecRet("Load", k, ZeroOf(valueType), FALSE,
                                  ret.reopened)
    /\ UNCHANGED <<st, lastStored, typeRegistry>>
    /\ CodecFixed

\* RegisterMsgpackType, called by the program with a value or a pointer.
CodecRegister ==
    /\ \E T \in ConcreteTypes, pointer \in BOOLEAN :
          /\ typeRegistry' = RegisterMsgpackType(typeRegistry, T, pointer)
          /\ ret' = CodecRet("Register", ZeroK, NilVal, TRUE, ret.reopened)
    /\ UNCHANGED <<st, lastStored>>
    /\ CodecFixed

\* Close of the map.
CodecClose ==
    /\ Usable(backend, st)
    /\ st' = MapClose(backend, st)
    /\ ret' = CodecRet("Close", ZeroK, NilVal, TRUE, ret.reopened)
    /\ UNCHANGED <<lastStored, typeRegistry>>
    /\ CodecFixed

\* The storage is constructed again on its location, in the same process.
CodecReopen ==
    /\ st.closed
    /\ st' = StorageReopen(st)
    /\ ret' = CodecRet("Open", ZeroK, NilVal, TRUE, TRUE)
    /\ UNCHANGED <<lastStored, typeRegistry>>
    /\ CodecFixed

\* The process ends and another one constructs the storage on the same
\* location: its registry is the empty map of the package's initialisation.
CodecRestart ==
    /\ st' = StorageReopen(st)
    /\ typeRegistry' = EmptyMap
    /\ ret' = CodecRet("Restart", ZeroK, NilVal, TRUE, TRUE)
    /\ UNCHANGED lastStored
    /\ CodecFixed

CodecNext ==
    \/ CodecStore \/ CodecLoad \/ CodecRegister
    \/ CodecClose \/ CodecReopen \/ CodecRestart

CodecSpec == CodecInit /\ [][CodecNext]_vars

\* The envelope stored under the key of the last call carries no type tag
\* or one that the registry does not hold.
FallsBack ==
    /\ ret.key \in DOMAIN st.data
    /\ st.data[ret.key].type \notin DOMAIN typeRegistry

\* C22 as stated: a Load that decodes an envelope without a registered type
\* tag returns the value that was stored, whatever the destination type.
C22_FallbackYieldsStored_Stated ==
    (ret.op = "Load" /\ FallsBack)
        => (ret.ok /\ ret.value = lastStored[ret.key])

\* C22: a Load that decodes an envelope without a registered type tag
\* returns the value that was stored when the destination type V is the
\* type of that value, or is interface{} and the value is nil or a string.
C22_FallbackYieldsStored ==
    (/\ ret.op = "Load" /\ FallsBack
     /\ \/ valueType = lastStored[ret.key].type
        \/ valueType = AnyT /\ lastStored[ret.key].type \in {"nil", StringT})
        => (ret.ok /\ ret.value = lastStored[ret.key])

\* A struct was loaded into its own type while its name was not registered.
C22_Witness ==
    /\ ret.op = "Load" /\ FallsBack
    /\ ret.ok
    /\ valueType = StructQ
    /\ ret.value = Val(StructQ, MaxVal)

\* The envelopes the byte storage holds.
Envelopes == {st.data[k] : k \in DOMAIN st.data}

\* The codec gives the same results with registry reg1 as with reg2: the
\* same envelope and registry for every value, the same value or error for
\* every stored envelope and destination type.
SameCodec(reg1, reg2) ==
    /\ \A V \in {AnyT} \cup ConcreteTypes : \A v \in TypedValues(V) :
          LET e1 == msgpackEncodeValueOf(reg1, v)
              e2 == msgpackEncodeValueOf(reg2, v)
          IN e1.bytes = e2.bytes /\ e1.err = e2.err
    /\ \A e \in Envelopes : \A V \in {AnyT} \cup ConcreteTypes :
          msgpackDecodeValueInto(reg1, e, V) = msgpackDecodeValueInto(reg2, e, V)

\* C23: a call of RegisterMsgpackType, or an encode, with a value whose type
\* name the registry already holds leaves the registry as it was, and with
\* it the result of every encode and decode.
C23_RegistrationIdempotent ==
    [][(/\ ret'.op \in {"Register", "Store"}
        /\ DOMAIN typeRegistry' = DOMAIN typeRegistry)
       => (/\ typeRegistry' = typeRegistry
           /\ SameCodec(typeRegistry', typeRegistry))]_vars

\* C24: after the storage was closed and constructed again on its location,
\* Load of a key under which a struct was stored returns it with found=true,
\* the struct's type being the one registered under its name.
C24_StructSurvivesReopen ==
    (/\ ret.op = "Load" /\ ret.reopened
     /\ ret.key \in DOMAIN st.data
     /\ lastStored[ret.key].type \in {StructZ, StructQ}
     /\ TypeString(lastStored[ret.key].type) \in DOMAIN typeRegistry
     /\ typeRegistry[TypeString(lastStored[ret.key].type)]
            = lastStored[ret.key].type)
        => (ret.ok /\ ret.value = lastStored[ret.key])

\* A struct stored through a map of interface{} values was loaded as a
\* struct after the storage was constructed again.
C24_Witness ==
    /\ ret.op = "Load" /\ ret.reopened /\ ret.ok
    /\ valueType = AnyT
    /\ ret.value = Val(StructZ, MaxVal)
    /\ lastStored[ret.key] = Val(StructZ, MaxVal)

\* ------------------------------ two maps on one Redis server, by prefix
\* Key names on the server are byte strings: the map's prefix followed by
\* the MessagePack encoding of the key, one byte for the keys of the model.
Maps == {1, 2}
\* The prefixes "a" and "b", and the prefixes "a" and "ab".
PrefixPairs == {<< <<97>>, <<98>> >>, << <<97>>, <<97, 98>> >>}

\* c.opts.prefix + string(keyBytes).
RedisName(p, k) == p \o <<k>>

\* The names SCAN returns for MATCH p*.
ScanMatch(srv, p) ==
    {name \in DOMAIN srv : Len(name) >= Len(p) /\ SubSeq(name, 1, Len(p)) = p}

\* The orders in which the server may iterate the names of S.
NameOrders(S) ==
    {o \in [1..Cardinality(S) -> S] : \A i, j \in DOMAIN o : o[i] = o[j] => i = j}

\* strings.SplitN(name, prefix, 2)[1], decoded by msgpack.Unmarshal into a
\* key: the byte that follows the prefix.
KeyOfName(name, p) == name[Len(p) + 1]

RedisStoreAt(srv, p, k, bytes) == Put(srv, RedisName(p, k), bytes)

RedisLoadAt(srv, p, k) ==
    IF RedisName(p, k) \in DOMAIN srv
    THEN Found(srv[RedisName(p, k)]) ELSE NotFound(NilBytes)

RECURSIVE RedisDeleteAt(_, _, _)
RedisDeleteAt(srv, p, keys) ==
    IF keys = <<>> THEN srv
    ELSE RedisDeleteAt(Remove(srv, RedisName(p, Head(keys))), p, Tail(keys))

\* Len: the number of names the scan returns.
RedisLenAt(srv, p) == Cardinality(ScanMatch(srv, p))

\* Keys: the keys decoded from the scanned names.
RedisKeysAt(order, p) == [i \in DOMAIN order |-> KeyOfName(order[i], p)]

\* Range: the decoded key and the bytes of every scanned name.
RedisRangeAt(srv, order, p) ==
    [i \in DOMAIN order |-> <<KeyOfName(order[i], p), srv[order[i]]>>]

\* Clear: Delete of the keys decoded from the scanned names.
RedisClearAt(srv, order, p) ==
    IF Len(order) > 0 THEN RedisDeleteAt(srv, p, RedisKeysAt(order, p)) ELSE srv

\* Next: the first scanned name, its bytes, and Delete of its decoded key.
RedisNextAt(srv, order, p) ==
    IF order = <<>>
    THEN [srv |-> srv, key |-> ZeroK, value |-> NilBytes, ok |-> FALSE]
    ELSE LET k == KeyOfName(order[1], p)
         IN [srv |-> RedisDeleteAt(srv, p, <<k>>), key |-> k,
             value |-> srv[order[1]], ok |-> TRUE]

\* The last call, the map it was made on and what it returned. keys: the
\* keys Keys returned, Range visited or Clear deleted; before: the entries
\* stored through that map when the call was made.
SharedRet(op, m, k, v, ok, n, keys) ==
    [op |-> op, map |-> m, key |-> k, value |-> v, ok |-> ok, n |-> n,
     keys |-> keys, before |-> own[m].data]

SharedFixed ==
    UNCHANGED <<backend, allowOverwrite, st, now, firstStored, lastStored,
                pc, call, res, mutex, budget, keyOf, returned,
                typeRegistry, valueType, prefix, mig, cachingMutex>>

\* own[m]: a private map that received the calls made on map m.
SharedInit ==
    /\ backend = "redis"
    /\ allowOverwrite = TRUE
    /\ st = NewStorage
    /\ now = 1
    /\ ret = [op |-> "New", map |-> 1, key |-> ZeroK, value |-> ZeroV,
              ok |-> FALSE, n |-> 0, keys |-> <<>>, before |-> EmptyMap]
    /\ firstStored = [k \in Keys |-> NoVal]
    /\ lastStored = [k \in Keys |-> NoVal]
    /\ ThreadsInit
    /\ budget = [t \in Threads |-> 0]
    /\ keyOf = [t \in Threads |-> ZeroK]
    /\ typeRegistry = EmptyMap
    /\ valueType = TypeName
    /\ server = EmptyMap
    /\ prefix \in PrefixPairs
    /\ mig = NoRun
    /\ cachingMutex = NewMutex

SharedStore(m) ==
    /\ \E k \in Keys, v \in Values :
          /\ server' = RedisStoreAt(server, prefix[m], k,
                                    msgpackEncodeValue(v).bytes)
          /\ own' = [own EXCEPT ![m].data = Put(@, k, v)]
          /\ ret' = SharedRet("Store", m, k, v, TRUE, 0, <<>>)
    /\ SharedFixed

SharedLoad(m) ==
    /\ \E k \in Keys :
          LET r == RedisLoadAt(server, prefix[m], k)
              d == msgpackDecodeValue(r.value)
          IN ret' = IF r.ok /\ ~d.err
                    THEN SharedRet("Load", m, k, d.value, TRUE, 0, <<>>)
                    ELSE SharedRet("Load", m, k, ZeroV, FALSE, 0, <<>>)
    /\ UNCHANGED <<server, own>>
    /\ SharedFixed

SharedDelete(m) ==
    /\ \E k \in Keys :
          /\ server' = RedisDeleteAt(server, prefix[m], <<k>>)
          /\ own' = [own EXCEPT ![m].data = Remove(@, k)]
          /\ ret' = SharedRet("Delete", m, k, ZeroV, TRUE, 0, <<>>)
    /\ SharedFixed

SharedLen(m) ==
    /\ ret' = SharedRet("Len", m, ZeroK, ZeroV, TRUE,
                        RedisLenAt(server, prefix[m]), <<>>)
    /\ UNCHANGED <<server, own>>
    /\ SharedFixed

SharedKeys(m) ==
    /\ \E order \in NameOrders(ScanMatch(server, prefix[m])) :
          ret' = SharedRet("Keys", m, ZeroK, ZeroV, TRUE, 0,
                           RedisKeysAt(order, prefix[m]))
    /\ UNCHANGED <<server, own>>
    /\ SharedFixed

\* Range with a visitor that returns true; the adapter decodes the bytes.
SharedRange(m) ==
    /\ \E order \in NameOrders(ScanMatch(server, prefix[m])) :
          ret' = SharedRet("Range", m, ZeroK, ZeroV, TRUE, 0,
                           RedisKeysAt(order, prefix[m]))
    /\ UNCHANGED <<server, own>>
    /\ SharedFixed

SharedClear(m) ==
    /\ \E order \in NameOrders(ScanMatch(server, prefix[m])) :
          /\ server' = RedisClearAt(server, order, prefix[m])
          /\ ret' = SharedRet("Clear", m, ZeroK, ZeroV, TRUE, 0,
                              RedisKeysAt(order, prefix[m]))
    /\ own' = [own EXCEPT ![m].data = EmptyMap]
    /\ SharedFixed

SharedNextEntry(m) ==
    /\ \E order \in NameOrders(ScanMatch(server, prefix[m])) :
          LET r == RedisNextAt(server, order, prefix[m])
              d == msgpackDecodeValue(r.value)
          IN /\ server' = r.srv
             /\ own' = [own EXCEPT ![m].data =
                           IF r.ok /\ r.key \in DOMAIN @ THEN Remove(@, r.key)
                           ELSE @]
             /\ ret' = SharedRet("Next", m, r.key,
                                 IF r.ok /\ ~d.err THEN d.value ELSE ZeroV,
                                 r.ok /\ ~d.err, 0, <<>>)
    /\ SharedFixed

SharedNext ==
    \E m \in Maps :
        \/ SharedStore(m) \/ SharedLoad(m) \/ SharedDelete(m) \/ SharedLen(m)
        \/ SharedKeys(m) \/ SharedRange(m) \/ SharedClear(m) \/ SharedNextEntry(m)

SharedSpec == SharedInit /\ [][SharedNext]_vars

\* The keys of a sequence of keys.
KeySet(keys) == {keys[i] : i \in DOMAIN keys}

\* C26: on one server, every call on a map counts, returns and removes the
\* entries stored through that map and no others: Len is their number,
\* Keys and Range return their keys, Next returns one of them, and what was
\* stored through a map stays on the server until that map removes it.
C26_PrefixIsolation ==
    /\ ret.op = "Len" => ret.n = Cardinality(DOMAIN ret.before)
    /\ ret.op \in {"Keys", "Range", "Clear"} => KeySet(ret.keys) = DOMAIN ret.before
    /\ (ret.op = "Next" /\ ret.ok) =>
           (ret.key \in DOMAIN ret.before /\ ret.value = ret.before[ret.key])
    /\ \A m \in Maps : \A k \in DOMAIN own[m].data :
           /\ RedisName(prefix[m], k) \in DOMAIN server
           /\ msgpackDecodeValue(server[RedisName(prefix[m], k)]).value
                  = own[m].data[k]

\* --------------------------------- the migration tools (cmd/migrate-*)
\* Strings are sequences of characters.
UserColon == <<"u", "s", "e", "r", ":">>
Star == <<"*">>
\* The keys "user:1", "user:*", "u:1" and "session" of a source store.
SourceKeys == {UserColon \o <<"1">>, UserColon \o Star, <<"u", ":", "1">>,
               <<"s", "e", "s", "s", "i", "o", "n">>}
\* key_pattern: "", "*", "user:*" and "session".
KeyPatterns == {<<>>, Star, UserColon \o Star,
                <<"s", "e", "s", "s", "i", "o", "n">>}
\* source_prefix and target_prefix: both empty, or "user:" and "u:".
KeyPrefixes == {<< <<>>, <<>> >>, << UserColon, <<"u", ":">> >>}
Tools == {"migrate-redis", "migrate-badger"}

StartsWith(s, p) == Len(s) >= Len(p) /\ SubSeq(s, 1, Len(p)) = p

\* The matching that the comments of the configuration files describe: a
\* pattern that ends in "*" matches the keys that start with what precedes
\* the "*".
matchPatternGlob(key, pattern) ==
    IF pattern = Star \/ pattern = <<>> THEN TRUE
    ELSE IF pattern[Len(pattern)] = "*"
    THEN StartsWith(key, SubSeq(pattern, 1, Len(pattern) - 1))
    ELSE key = pattern

matchPattern(key, pattern) ==
    IF pattern = Star \/ pattern = <<>> THEN TRUE
    ELSE key = pattern

\* migrate-redis only.
transformKey(key, sourcePrefix, targetPrefix) ==
    IF /\ sourcePrefix # <<>> /\ targetPrefix # <<>>
       /\ Len(key) > Len(sourcePrefix)
       /\ SubSeq(key, 1, Len(sourcePrefix)) = sourcePrefix
    THEN targetPrefix \o SubSeq(key, Len(sourcePrefix) + 1, Len(key))
    ELSE key

\* "Apply key pattern filter if specified".
FilterApplies(tool, pattern) ==
    IF tool = "migrate-redis" THEN pattern # <<>> /\ pattern # Star
    ELSE pattern # <<>>

\* Mutant of Callback: an entry that the filter rejects is not counted as
\* skipped.
CallbackForgetsSkipped(m, key, done) ==
    LET value == m.source[key]
        counted == [m EXCEPT !.total = @ + 1, !.read = @ \cup {key}]
        newKey == IF m.tool = "migrate-redis"
                  THEN transformKey(key, m.sourcePrefix, m.targetPrefix)
                  ELSE key
    IN IF FilterApplies(m.tool, m.pattern) /\ ~matchPattern(key, m.pattern)
       THEN [m |-> counted, continue |-> TRUE]
       ELSE IF m.dryRun
       THEN [m |-> [counted EXCEPT !.migrated = @ + 1,
                                   !.moved = @ \cup {<<key, newKey>>},
                                   !.cancelled = done],
             continue |-> ~done]
       ELSE [m |-> [counted EXCEPT !.target = Put(@, newKey, value),
                                   !.stores = @ + 1,
                                   !.migrated = @ + 1,
                                   !.moved = @ \cup {<<key, newKey>>},
                                   !.cancelled = done],
             continue |-> ~done]

\* Mutant of Callback: the dry run stores as a real run does.
CallbackStores(m, key, done) ==
    LET value == m.source[key]
        counted == [m EXCEPT !.total = @ + 1, !.read = @ \cup {key}]
        newKey == IF m.tool = "migrate-redis"
                  THEN transformKey(key, m.sourcePrefix, m.targetPrefix)
                  ELSE key
    IN IF FilterApplies(m.tool, m.pattern) /\ ~matchPattern(key, m.pattern)
       THEN [m |-> [counted EXCEPT !.skipped = @ + 1], continue |-> TRUE]
       ELSE [m |-> [counted EXCEPT !.target = Put(@, newKey, value),
                                   !.stores = @ + 1,
                                   !.migrated = @ + 1,
                                   !.moved = @ \cup {<<key, newKey>>},
                                   !.cancelled = done],
             continue |-> ~done]

\* The function runMigration passes to Range, called with an entry of the
\* source; done: ctx.Done() is closed when the callback looks at it. The
\* run after the call, and what the callback returns. matchPattern and
\* migrateKeyValue return a nil error always, so no entry is counted in
\* ErrorKeys.
Callback(m, key, done) ==
    LET value == m.source[key]
        counted == [m EXCEPT !.total = @ + 1, !.read = @ \cup {key}]
        newKey == IF m.tool = "migrate-redis"
                  THEN transformKey(key, m.sourcePrefix, m.targetPrefix)
                  ELSE key
    IN IF FilterApplies(m.tool, m.pattern) /\ ~matchPattern(key, m.pattern)
       THEN [m |-> [counted EXCEPT !.skipped = @ + 1], continue |-> TRUE]
       ELSE IF m.dryRun
       THEN [m |-> [counted EXCEPT !.migrated = @ + 1,
                                   !.moved = @ \cup {<<key, newKey>>},
                                   !.cancelled = done],
             continue |-> ~done]
       ELSE [m |-> [counted EXCEPT !.target = Put(@, newKey, value),
                                   !.stores = @ + 1,
                                   !.migrated = @ + 1,
                                   !.moved = @ \cup {<<key, newKey>>},
                                   !.cancelled = done],
             continue |-> ~done]

\* A run before runMigration is called. source0: the source store as the
\* run found it; opened: the target store was constructed; stores: the calls
\* of Store on it; read: the keys the callback was called with; moved: the
\* keys counted as migrated, with the keys they were given; todo: the
\* entries Range has still to visit; errors: ErrorKeys.
NewRun(tool, dryRun, pattern, prefixes, source) ==
    [phase |-> "ready", tool |-> tool, dryRun |-> dryRun, pattern |-> pattern,
     sourcePrefix |-> prefixes[1], targetPrefix |-> prefixes[2],
     source |-> source, source0 |-> source, target |-> EmptyMap,
     opened |-> FALSE, stores |-> 0, todo |-> <<>>,
     total |-> 0, migrated |-> 0, skipped |-> 0, errors |-> 0,
     read |-> {}, moved |-> {}, cancelled |-> FALSE]

MigFixed ==
    UNCHANGED <<seqVars, concVars, typeRegistry, valueType, server, prefix,
                cachingMutex>>

MigInit ==
    /\ backend \in {"redis", "badger"}
    /\ allowOverwrite = TRUE
    /\ st = NewStorage
    /\ now = 1
    /\ ret = NoRet
    /\ firstStored = [k \in Keys |-> NoVal]
    /\ lastStored = [k \in Keys |-> NoVal]
    /\ ThreadsInit
    /\ budget = [t \in Threads |-> 0]
    /\ keyOf = [t \in Threads |-> ZeroK]
    /\ typeRegistry = EmptyMap
    /\ valueType = TypeName
    /\ server = EmptyMap
    /\ prefix = <<>>
    /\ cachingMutex = NewMutex
    /\ \E dryRun \in BOOLEAN, pattern \in KeyPatterns,
          prefixes \in KeyPrefixes, S \in SUBSET SourceKeys :
       \E source \in [S -> Values] :
          mig = NewRun(IF backend = "redis" THEN "migrate-redis"
                       ELSE "migrate-badger",
                       dryRun, pattern, prefixes, source)

\* runMigration up to the call of Range: the target store is constructed
\* unless the run is a dry run; Range will visit the entries in some order.
MigStart ==
    /\ mig.phase = "ready"
    /\ \E order \in NameOrders(DOMAIN mig.source) :
          mig' = [mig EXCEPT !.phase = "running", !.todo = order,
                             !.opened = ~mig.dryRun]
    /\ MigFixed

\* Range calls the callback with its next entry and stops when the
\* callback returns false.
MigVisit ==
    /\ mig.phase = "running"
    /\ mig.todo # <<>>
    /\ \E done \in BOOLEAN :
          LET r == Callback(mig, Head(mig.todo), done)
          IN mig' = [r.m EXCEPT !.todo = IF r.continue THEN Tail(@) ELSE <<>>]
    /\ MigFixed

\* Range has returned: runMigration returns the stats.
MigFinish ==
    /\ mig.phase = "running"
    /\ mig.todo = <<>>
    /\ mig' = [mig EXCEPT !.phase = "done"]
    /\ MigFixed

MigNext == MigStart \/ MigVisit \/ MigFinish

MigSpec == MigInit /\ [][MigNext]_vars

\* C29: a dry run never constructs the target store and never calls Store
\* on it, and leaves the source as it found it; when it ends without having
\* been cancelled it has read every entry of the source and has either
\* skipped it by the filter or counted it as migrated under its new key.
C29_DryRunStoresNothing ==
    mig.dryRun =>
        /\ ~mig.opened /\ mig.stores = 0 /\ mig.target = EmptyMap
        /\ mig.source = mig.source0
        /\ (mig.phase = "done" /\ ~mig.cancelled) =>
              /\ mig.read = DOMAIN mig.source
              /\ mig.total = Cardinality(DOMAIN mig.source)
              /\ mig.migrated + mig.skipped = mig.total
              /\ mig.migrated = Cardinality(mig.moved)

\* A dry run has ended that skipped an entry and counted another, with a
\* new key, as migrated.
C29_Witness ==
    /\ mig.dryRun /\ mig.phase = "done" /\ ~mig.cancelled
    /\ mig.skipped > 0
    /\ \E p \in mig.moved : p[1] # p[2]

\* C30: a run with key_pattern "user:*" that ends without having been
\* cancelled has migrated the keys of the source that start with "user:"
\* and no others; a run with key_pattern "*" has migrated all its keys.
C30_PatternSelectsByPrefix ==
    (mig.phase = "done" /\ ~mig.cancelled) =>
        /\ mig.pattern = UserColon \o Star =>
              {p[1] : p \in mig.moved}
                  = {k \in DOMAIN mig.source : StartsWith(k, UserColon)}
        /\ mig.pattern = Star =>
              {p[1] : p \in mig.moved} = DOMAIN mig.source

\* C38: at every point of a run, every key the callback was called with is
\* counted in exactly one of MigratedKeys, SkippedKeys and ErrorKeys.
C38_EveryKeyCountedOnce ==
    /\ mig.total = Cardinality(mig.read)
    /\ mig.total = mig.migrated + mig.skipped + mig.errors

\* A real run that was cancelled has ended with skipped and migrated keys.
C38_Witness ==
    /\ mig.phase = "done" /\ mig.cancelled /\ ~mig.dryRun
    /\ mig.skipped > 0 /\ mig.migrated > 0

\* C39: when a real run has ended without cancellation, every entry counted
\* as migrated is in the target under its new key with its source value,
\* and the target holds as many entries as were counted.
C39_MigratedEntriesInTarget ==
    (mig.phase = "done" /\ ~mig.dryRun /\ ~mig.cancelled) =>
        /\ \A p \in mig.moved :
              /\ p[2] \in DOMAIN mig.target
              /\ mig.target[p[2]] = mig.source[p[1]]
        /\ Cardinality(DOMAIN mig.target) = mig.migrated

\* C37: after a Store that encoded a value other than nil, the type tag of
\* the envelope it wrote is a name the registry holds.
C37_TagIsRegistered ==
    (ret.op = "Store" /\ ret.ok /\ ret.value.type # "nil")
        => st.data[ret.key].type \in DOMAIN typeRegistry

\* C35: on an adapter-wrapped backend, a Next that reports found=false
\* found the backend empty, and a Next that removes an entry returns it
\* with found=true.
C35_NextDrains ==
    [][(ret'.op = "Next" /\ backend # "direct")
       => (/\ ~ret'.ok => st.data = EmptyMap
           /\ st'.data # st.data => ret'.ok)]_vars

\* The keys for which Load reports found.
Loadable == {k \in Keys : MapLoad(backend, st, k).ok}

\* C36: on an adapter-wrapped backend, Len returns the number of keys for
\* which Load reports found and Keys returns exactly those keys.
C36_LenKeysLoadAgree ==
    backend # "direct" =>
        /\ ret.op = "Len" => ret.n = Cardinality(Loadable)
        /\ ret.op = "Keys" => KeySet(ret.keys) = Loadable

\* --------------------------------------------- several goroutines, Pop
\* Map.Pop, m.storage.Load: the read section of the storage's Load. A key
\* that is not found ends the call; otherwise m.storage.Delete is called
\* next, under a lock of its own.
PopLoad(t) ==
    /\ pc[t] = "Pop_load"
    /\ CanRLock(mutex, t)
    /\ LET r == MapLoad(backend, st, call[t].key)
       IN IF ~r.ok
          THEN /\ Return(t, Result("Pop", call[t].key, r.value, FALSE))
               /\ UNCHANGED call
          ELSE /\ call' = [call EXCEPT ![t].val = r.value]
               /\ pc' = [pc EXCEPT ![t] = "Delete_lock"]
               /\ UNCHANGED res
    /\ UNCHANGED <<st, mutex, budget, own>>
    /\ Fixed

\* Goroutines calling Pop and Load.
PopBegin(t) == Begin(t, {"Pop", "Load"})

PopNext ==
    \E t \in Threads :
        \/ PopBegin(t)
        \/ PopLoad(t)
        \/ LoadStep(t)
        \/ DeleteLock(t) \/ DeleteWrite(t)

PopSpec == PrestoredInit /\ [][PopNext]_vars

\* The key was stored once before the goroutines began (no goroutine of
\* PopSpec stores).
StoredOnce(k) == Cardinality({t \in Threads : k \in DOMAIN own[t].data}) = 1

\* C33: of the calls of Pop that goroutines make on a key that was stored
\* once, at most one returns found=true.
C33_PopFoundAtMostOnce ==
    \A t, u \in Threads :
        (/\ t # u
         /\ res[t].op = "Pop" /\ res[u].op = "Pop"
         /\ res[t].key = res[u].key
         /\ StoredOnce(res[t].key))
            => ~(res[t].ok /\ res[u].ok)

\* ------------------------- several goroutines, the Badger entry counter
\* Badger, started on a location that holds the entries of some keys.
CounterInit ==
    /\ backend = "badger"
    /\ allowOverwrite = TRUE
    /\ st \in {Stocked(backend, S) : S \in SUBSET Keys}
    /\ now = 1
    /\ ret = NoRet
    /\ firstStored = [k \in Keys |-> NoVal]
    /\ lastStored = [k \in Keys |-> NoVal]
    /\ ThreadsInit
    /\ ToolsInit
    /\ budget = [t \in Threads |-> MaxOps]
    /\ keyOf = [t \in Threads |-> ZeroK]

\* The first step of each call on the Badger storage.
CounterEntry(name) ==
    CASE name = "Store" -> "BStore"
      [] name = "Delete" -> "BDelete"
      [] name = "Next" -> "BNext"
      [] name = "Clear" -> "BClear"
      [] name = "Len" -> "BLen"

\* A goroutine calls Store or Delete of a key, Next, Clear or Len.
CounterBegin(t) ==
    /\ pc[t] = "idle"
    /\ budget[t] > 0
    /\ \E name \in {"Store", "Delete", "Next", "Clear", "Len"} :
       \E k \in (IF name \in {"Store", "Delete"} THEN Keys ELSE {ZeroK}) :
          /\ call' = [call EXCEPT ![t] =
                         [NoCall EXCEPT !.name = name, !.key = k,
                                        !.val = Min(Values),
                                        !.keys = IF name = "Delete"
                                                 THEN <<k>> ELSE <<>>]]
          /\ pc' = [pc EXCEPT ![t] = CounterEntry(name)]
    /\ budget' = [budget EXCEPT ![t] = @ - 1]
    /\ UNCHANGED toolVars
    /\ UNCHANGED <<st, mutex, res, returned, backend, allowOverwrite, now,
                   ret, firstStored, lastStored, keyOf, own>>

\* Badger's Store, c.db.Update: txn.Set of the encoded value.
BadgerStoreSet(t) ==
    /\ pc[t] = "BStore"
    /\ st' = [st EXCEPT !.data = Put(@, call[t].key,
                                     msgpackEncodeValue(call[t].val).bytes)]
    /\ pc' = [pc EXCEPT ![t] = "BStore_add"]
    /\ UNCHANGED <<mutex, call, res, returned>>
    /\ ByteFixed

\* Badger's Store, c.len.Add(1).
BadgerStoreAdd(t) ==
    /\ pc[t] = "BStore_add"
    /\ st' = [st EXCEPT !.len = @ + 1]
    /\ ByteReturn(t, Result("Store", call[t].key, call[t].val, TRUE))
    /\ UNCHANGED <<mutex, call>>
    /\ ByteFixed

\* Badger's Clear, c.db.DropAll().
BadgerClearDrop(t) ==
    /\ pc[t] = "BClear"
    /\ st' = [st EXCEPT !.data = EmptyMap]
    /\ pc' = [pc EXCEPT ![t] = "BClear_set"]
    /\ UNCHANGED <<mutex, call, res, returned>>
    /\ ByteFixed

\* Badger's Clear, c.len.Store(0).
BadgerClearSet(t) ==
    /\ pc[t] = "BClear_set"
    /\ st' = [st EXCEPT !.len = 0]
    /\ ByteReturn(t, Result("Clear", ZeroK, ZeroV, TRUE))
    /\ UNCHANGED <<mutex, call>>
    /\ ByteFixed

\* Badger's Len, c.initLenCall.Load().
BadgerLenLoadFlag(t) ==
    /\ pc[t] = "BLen"
    /\ pc' = [pc EXCEPT ![t] = IF st.initLenCall THEN "BLen_ret"
                               ELSE "BLen_flag"]
    /\ UNCHANGED <<st, mutex, call, res, returned>>
    /\ ByteFixed

\* Badger's Len, c.initLenCall.Store(true).
BadgerLenStoreFlag(t) ==
    /\ pc[t] = "BLen_flag"
    /\ st' = [st EXCEPT !.initLenCall = TRUE]
    /\ pc' = [pc EXCEPT ![t] = "BLen_scan"]
    /\ UNCHANGED <<mutex, call, res, returned>>
    /\ ByteFixed

\* Badger's Len, c.db.View: the iterator counts the items of its snapshot.
BadgerLenScan(t) ==
    /\ pc[t] = "BLen_scan"
    /\ call' = [call EXCEPT ![t].cnt = Cardinality(DOMAIN st.data)]
    /\ pc' = [pc EXCEPT ![t] = "BLen_set"]
    /\ UNCHANGED <<st, mutex, res, returned>>
    /\ ByteFixed

\* Badger's Len, c.len.Store(int64(cnt)).
BadgerLenSet(t) ==
    /\ pc[t] = "BLen_set"
    /\ st' = [st EXCEPT !.len = call[t].cnt]
    /\ pc' = [pc EXCEPT ![t] = "BLen_ret"]
    /\ UNCHANGED <<mutex, call, res, returned>>
    /\ ByteFixed

\* Badger's Len, return int(c.len.Load()).
BadgerLenReturn(t) ==
    /\ pc[t] = "BLen_ret"
    /\ ByteReturn(t, [Result("Len", ZeroK, ZeroV, TRUE) EXCEPT !.n = st.len])
    /\ UNCHANGED <<st, mutex, call>>
    /\ ByteFixed

CounterNext ==
    \E t \in Threads :
        \/ CounterBegin(t)
        \/ BadgerStoreSet(t) \/ BadgerStoreAdd(t)
        \/ BadgerDeleteLoad(t) \/ BadgerDeleteCommit(t)
        \/ BadgerNextView(t)
        \/ BadgerClearDrop(t) \/ BadgerClearSet(t)
        \/ BadgerLenLoadFlag(t) \/ BadgerLenStoreFlag(t) \/ BadgerLenScan(t)
        \/ BadgerLenSet(t) \/ BadgerLenReturn(t)

CounterSpec == CounterInit /\ [][CounterNext]_vars

\* No call is in progress.
Quiescent == \A t \in Threads : pc[t] = "idle"

\* C32: on Badger, when no call is in progress, Len returns the number of
\* keys present, whatever the interleaving of the Store, Delete, Next, Clear
\* and Len calls that came before.
C32_BadgerLenExactWhenQuiescent ==
    Quiescent => BadgerLen(st).n = Cardinality(DOMAIN st.data)

\* ------------------- several goroutines, SQLite and its two mutexes
\* mutex is s.mutex, cachingMutex is s.cachingMutex. In the results of this
\* section, cached: Len returned the cached count, or a Store, Delete,
\* Clear or Next invalidated a count that was still valid.
CacheFixed ==
    UNCHANGED <<backend, allowOverwrite, ret, firstStored, lastStored,
                budget, keyOf, own, returned,
                typeRegistry, valueType, server, prefix, mig>>

CacheInit ==
    /\ backend = "sqlite"
    /\ allowOverwrite = TRUE
    /\ st \in {Stocked(backend, S) : S \in SUBSET Keys}
    /\ now = 1
    /\ ret = NoRet
    /\ firstStored = [k \in Keys |-> NoVal]
    /\ lastStored = [k \in Keys |-> NoVal]
    /\ ThreadsInit
    /\ ToolsInit
    /\ budget = [t \in Threads |-> MaxOps]
    /\ keyOf = [t \in Threads |-> ZeroK]

\* !s.lastCount.IsZero() && time.Since(s.lastCount) < s.getCacheCountDuration()
CacheValid(s, t) ==
    s.lastCount # 0 /\ t - s.lastCount < defaultCacheCountDuration

\* A goroutine calls Store or Delete of its key, Clear, Next or Len.
CacheBegin(t) ==
    /\ pc[t] = "idle"
    /\ budget[t] > 0
    /\ \E name \in {"Store", "Delete", "Clear", "Next", "Len"} :
       \E k \in (IF name \in {"Store", "Delete"} THEN {keyOf[t]}
                ELSE {ZeroK}) :
          /\ call' = [call EXCEPT ![t] =
                         [NoCall EXCEPT !.name = name, !.key = k,
                                        !.val = Min(Values),
                                        !.keys = IF name = "Delete"
                                                 THEN <<k>> ELSE <<>>]]
          /\ pc' = [pc EXCEPT ![t] = IF name = "Len" THEN "Len_rlock"
                                     ELSE "Sq_lock"]
    /\ budget' = [budget EXCEPT ![t] = @ - 1]
    /\ UNCHANGED <<st, now, mutex, cachingMutex, res>>
    /\ UNCHANGED <<backend, allowOverwrite, ret, firstStored, lastStored,
                   keyOf, own, returned,
                   typeRegistry, valueType, server, prefix, mig>>

CacheReturn(t, r) ==
    /\ pc' = [pc EXCEPT ![t] = "idle"]
    /\ res' = [res EXCEPT ![t] = r]

\* Store, Delete, Clear and Next: s.mutex.Lock() is called.
SqliteMutexLock(t) ==
    /\ pc[t] = "Sq_lock"
    /\ CanLockPending(mutex, t)
    /\ mutex' = LockPending(mutex, t)
    /\ pc' = [pc EXCEPT ![t] = "Sq_wait"]
    /\ UNCHANGED <<st, now, cachingMutex, call, res>>
    /\ CacheFixed

\* Store: s.mutex is acquired and INSERT OR REPLACE executed; its error is
\* printed, and s.invalidateCountCache() is called.
SqliteStoreExec(t) ==
    /\ pc[t] = "Sq_wait" /\ call[t].name = "Store"
    /\ CanLock(mutex, t)
    /\ \E execOk \in BOOLEAN :
          st' = IF execOk
                THEN [st EXCEPT !.data =
                         Put(@, call[t].key,
                             msgpackEncodeValue(call[t].val).bytes)]
                ELSE st
    /\ pc' = [pc EXCEPT ![t] = "Sq_inv"]
    /\ UNCHANGED <<now, mutex, cachingMutex, call, res>>
    /\ CacheFixed

\* Delete: s.mutex is acquired. When Begin or Prepare fails the call
\* returns (the deferred Unlock runs); otherwise the DELETE statements run,
\* the transaction is committed or rolled back, and
\* s.invalidateCountCache() is called.
SqliteDeleteExec(t) ==
    /\ pc[t] = "Sq_wait" /\ call[t].name = "Delete"
    /\ CanLock(mutex, t)
    /\ \E began \in BOOLEAN, commitOk \in BOOLEAN :
          IF ~began
          THEN /\ mutex' = Unlock(mutex, t)
               /\ CacheReturn(t, Result("Delete", call[t].key, ZeroV, FALSE))
               /\ UNCHANGED st
          ELSE /\ st' = IF commitOk THEN SqliteDeleteRows(st, call[t].keys)
                        ELSE st
               /\ pc' = [pc EXCEPT ![t] = "Sq_inv"]
               /\ UNCHANGED <<mutex, res>>
    /\ UNCHANGED <<now, cachingMutex, call>>
    /\ CacheFixed

\* Clear: s.mutex is acquired and DELETE FROM executed; its error is
\* printed, and s.invalidateCountCache() is called.
SqliteClearExec(t) ==
    /\ pc[t] = "Sq_wait" /\ call[t].name = "Clear"
    /\ CanLock(mutex, t)
    /\ \E execOk \in BOOLEAN :
          st' = IF execOk THEN [st EXCEPT !.data = EmptyMap] ELSE st
    /\ pc' = [pc EXCEPT ![t] = "Sq_inv"]
    /\ UNCHANGED <<now, mutex, cachingMutex, call, res>>
    /\ CacheFixed

\* Next: s.mutex is acquired and a row selected. With no row, or when the
\* row cannot be read, the call returns (the deferred Unlock runs);
\* otherwise the row's DELETE is executed, its error printed, and
\* s.invalidateCountCache() is called.
SqliteNextExec(t) ==
    /\ pc[t] = "Sq_wait" /\ call[t].name = "Next"
    /\ CanLock(mutex, t)
    /\ \E pick \in Picks(st), scanOk \in BOOLEAN, execOk \in BOOLEAN :
          IF DOMAIN st.data = {} \/ ~scanOk
          THEN /\ mutex' = Unlock(mutex, t)
               /\ CacheReturn(t, Result("Next", ZeroK, ZeroV, FALSE))
               /\ UNCHANGED <<st, call>>
          ELSE /\ st' = IF execOk THEN [st EXCEPT !.data = Remove(@, pick)]
                        ELSE st
               /\ call' = [call EXCEPT ![t].key = pick]
               /\ pc' = [pc EXCEPT ![t] = "Sq_inv"]
               /\ UNCHANGED <<mutex, res>>
    /\ UNCHANGED <<now, cachingMutex>>
    /\ CacheFixed

\* invalidateCountCache, called with s.mutex held: s.cachingMutex.Lock()
\* is called.
SqliteInvalidateLock(t) ==
    /\ pc[t] = "Sq_inv"
    /\ CanLockPending(cachingMutex, t)
    /\ cachingMutex' = LockPending(cachingMutex, t)
    /\ pc' = [pc EXCEPT ![t] = "Sq_inv_wait"]
    /\ UNCHANGED <<st, now, mutex, call, res>>
    /\ CacheFixed

\* invalidateCountCache: s.cachingMutex is acquired, the cache reset and
\* the mutex released; the caller returns and its deferred
\* s.mutex.Unlock() runs.
SqliteInvalidate(t) ==
    /\ pc[t] = "Sq_inv_wait"
    /\ CanLock(cachingMutex, t)
    /\ st' = invalidateCountCache(st)
    /\ cachingMutex' = Unlock(cachingMutex, t)
    /\ mutex' = Unlock(mutex, t)
    /\ CacheReturn(t, [Result(call[t].name, call[t].key, ZeroV, TRUE) EXCEPT
                         !.cached = CacheValid(st, now)])
    /\ UNCHANGED <<now, call>>
    /\ CacheFixed

\* What Len returns to a caller; quiet: no other goroutine is inside a call;
\* expectN: the rows of the table.
LenResult(t, n, cached) ==
    [Result("Len", ZeroK, ZeroV, TRUE) EXCEPT
        !.n = n, !.cached = cached,
        !.quiet = \A u \in Threads \ {t} : pc[u] = "idle",
        !.expectN = Cardinality(DOMAIN st.data)]

\* The clock when a Len is called: as it was at the last reading, or the
\* cache duration later.
LenClock ==
    {time \in {now, now + defaultCacheCountDuration} : time <= MaxTime}

\* Len, under s.cachingMutex.RLock(): a cached count that is still valid at
\* the time the clock shows is returned.
SqliteLenRead(t) ==
    /\ pc[t] = "Len_rlock"
    /\ CanRLock(cachingMutex, t)
    /\ \E time \in LenClock :
          /\ now' = time
          /\ IF CacheValid(st, time)
             THEN CacheReturn(t, LenResult(t, st.countCache, TRUE))
             ELSE pc' = [pc EXCEPT ![t] = "Len_lock"] /\ UNCHANGED res
    /\ UNCHANGED <<st, mutex, cachingMutex, call>>
    /\ CacheFixed

\* Len: s.cachingMutex.Lock() is called.
SqliteLenLock(t) ==
    /\ pc[t] = "Len_lock"
    /\ CanLockPending(cachingMutex, t)
    /\ cachingMutex' = LockPending(cachingMutex, t)
    /\ pc' = [pc EXCEPT ![t] = "Len_wait"]
    /\ UNCHANGED <<st, now, mutex, call, res>>
    /\ CacheFixed

\* Len: s.cachingMutex is acquired and the cache checked again; when it is
\* not valid, s.mutex.RLock() is called with s.cachingMutex held.
SqliteLenRecheck(t) ==
    /\ pc[t] = "Len_wait"
    /\ CanLock(cachingMutex, t)
    /\ IF CacheValid(st, now)
       THEN /\ cachingMutex' = Unlock(cachingMutex, t)
            /\ CacheReturn(t, LenResult(t, st.countCache, TRUE))
       ELSE /\ pc' = [pc EXCEPT ![t] = "Len_count"]
            /\ UNCHANGED <<cachingMutex, res>>
    /\ UNCHANGED <<st, now, mutex, call>>
    /\ CacheFixed

\* Len: s.mutex.RLock() is acquired and the rows counted; an error of the
\* query returns 0 and leaves the cache; otherwise the count is cached.
\* Both mutexes are released.
SqliteLenCount(t) ==
    /\ pc[t] = "Len_count"
    /\ CanRLock(mutex, t)
    /\ \E queryOk \in BOOLEAN :
          LET count == Cardinality(DOMAIN st.data)
          IN IF queryOk
             THEN /\ st' = [st EXCEPT !.countCache = count, !.lastCount = now]
                  /\ CacheReturn(t, LenResult(t, count, FALSE))
             ELSE /\ st' = st
                  /\ CacheReturn(t, [LenResult(t, 0, FALSE) EXCEPT
                                       !.ok = FALSE])
    /\ cachingMutex' = Unlock(cachingMutex, t)
    /\ UNCHANGED <<now, mutex, call>>
    /\ CacheFixed

\* The steps of goroutine t.
CacheStep(t) ==
    \/ SqliteMutexLock(t)
    \/ SqliteStoreExec(t) \/ SqliteDeleteExec(t)
    \/ SqliteClearExec(t) \/ SqliteNextExec(t)
    \/ SqliteInvalidateLock(t) \/ SqliteInvalidate(t)
    \/ SqliteLenRead(t) \/ SqliteLenLock(t)
    \/ SqliteLenRecheck(t) \/ SqliteLenCount(t)

CacheNext == \E t \in Threads : CacheBegin(t) \/ CacheStep(t)

CacheSpec == CacheInit /\ [][CacheNext]_vars

\* C31: on SQLite, whenever calls of Len, Store, Delete, Clear or Next are
\* in progress, one of them can take its next step: the calls never
\* deadlock.
C31_SqliteNoDeadlock ==
    (\E t \in Threads : pc[t] # "idle")
        => \E t \in Threads : pc[t] # "idle" /\ ENABLED CacheStep(t)

\* C34: on SQLite, when no call is in progress and the cached count is
\* valid, it is the number of rows; and a Len that returns while no other
\* call is in progress (its query having succeeded when it ran one) returns
\* the number of rows, also inside the cache duration of a count cached
\* before a Store, Delete, Clear or Next.
C34_CacheNeverStale ==
    /\ (Quiescent /\ CacheValid(st, now))
           => st.countCache = Cardinality(DOMAIN st.data)
    /\ \A t \in Threads :
           (res[t].op = "Len" /\ res[t].ok /\ res[t].quiet)
               => res[t].n = res[t].expectN

\* A Store invalidated a count that was still valid, and within the cache
\* duration of that count a later Len counted the rows anew: two of them.
C34_Witness ==
    /\ Quiescent /\ now = 1
    /\ res[1].op = "Len" /\ res[1].ok /\ res[1].quiet /\ ~res[1].cached
    /\ res[1].n = 2
    /\ res[2].op = "Store" /\ res[2].cached
    /\ budget[1] = 0
    /\ CacheValid(st, now) /\ st.countCache = 2

====
